---------------------------- MODULE Spec2Model ----------------------------
(***************************************************************************)
(* A model of the kb_query natural-language-to-SPARQL pipeline:            *)
(*   kb_query/core/matcher.py   PatternMatcher                             *)
(*   kb_query/core/builder.py   SPARQLBuilder                              *)
(*   kb_query/services/query.py QueryService                               *)
(* Text is a sequence of one-character strings; a float confidence is an   *)
(* exact rational [num, den] in lowest terms.                              *)
(***************************************************************************)
EXTENDS Integers, Sequences, FiniteSets, TLC

VARIABLES
    grammar,      \* QueryService.grammar: the sequence of Patterns
    threshold,    \* PatternMatcher.similarity_threshold
    namespaces,   \* SPARQLBuilder.namespaces: (prefix, uri) in insertion order
    pc,           \* "Ready": no call in progress; else which call has just returned
    request,      \* the QueryRequest given to process_query
    input,        \* the text given to find_matches / extract_entities
    matches,      \* the list find_matches returned
    best_match,   \* the MatchResult given to build_query
    built,        \* what build_query produced: a SPARQLQuery or the SPARQLError raised
    extracted,    \* what extract_entities returned, with the pattern it was given
    response,     \* the QueryResponse process_query returned
    call,         \* a constructor or function called on its own: its name and arguments
    made,         \* what that call returned, or the exception it raised
    cache,        \* the cache manager's store: the (key, value) pairs put so far
    tasks         \* the process_query invocations in progress, each with its locals

vars == <<grammar, threshold, namespaces, pc, request, input, matches, best_match,
          built, extracted, response, call, made, cache, tasks>>

\* Python's None where a record (an object, a dict) may stand
None == [none |-> TRUE]

\* an optional text or list: Nothing for None, Some(x) for the value x
Nothing == <<>>
Some(x) == <<x>>

-----------------------------------------------------------------------------
(* Characters and text                                                      *)

Chars(s) == [i \in 1..Len(s) |-> SubSeq(s, i, i)]

LowerAlpha == Chars("abcdefghijklmnopqrstuvwxyz")
UpperAlpha == Chars("ABCDEFGHIJKLMNOPQRSTUVWXYZ")
Digits == Chars("0123456789")

Range(f) == {f[i] : i \in DOMAIN f}

LowerSet == Range(LowerAlpha)
UpperSet == Range(UpperAlpha)
DigitSet == Range(Digits)

\* Python's \w (letters, digits, underscore) and \s on the characters used
WordChars == LowerSet \cup UpperSet \cup DigitSet \cup {"_"}
SpaceChars == {" ", "\n", "\t", "\r"}

\* every character a text of the model can hold
AllChars == WordChars \cup SpaceChars
            \cup Range(Chars("!\"#$%&'()*+,-./:;<=>?@[\\]^{|}~"))

\* str.lower() / str.upper() on one character
LowerMap == [c \in AllChars |->
                IF c \in UpperSet THEN LowerAlpha[CHOOSE i \in 1..26 : UpperAlpha[i] = c] ELSE c]
UpperMap == [c \in AllChars |->
                IF c \in LowerSet THEN UpperAlpha[CHOOSE i \in 1..26 : LowerAlpha[i] = c] ELSE c]
LowerChar(c) == LowerMap[c]
UpperChar(c) == UpperMap[c]

Lower(t) == [i \in 1..Len(t) |-> LowerChar(t[i])]
Upper(t) == [i \in 1..Len(t) |-> UpperChar(t[i])]

\* t[from..] starts with the text p
StartsAt(t, from, p) ==
    /\ from >= 1
    /\ from + Len(p) - 1 <= Len(t)
    /\ \A k \in 1..Len(p) : t[from + k - 1] = p[k]

\* Python's `p in t`
Contains(t, p) ==
    \/ Len(p) = 0
    \/ \E i \in 1..(Len(t) - Len(p) + 1) : t[i] = p[1] /\ StartsAt(t, i, p)

\* str.find: first index (1-based) of p in t at or after from, 0 when absent
Find(t, p, from) ==
    LET end == Len(t) - Len(p) + 2
        i == CHOOSE x \in from..end :
                /\ x = end \/ StartsAt(t, x, p)
                /\ \A j \in from..(x - 1) : ~StartsAt(t, j, p)
    IN IF from >= end \/ i = end THEN 0 ELSE i

\* str.rfind: last index of p in t, 0 when absent
RFind(t, p) ==
    IF Contains(t, p)
    THEN CHOOSE i \in 1..(Len(t) - Len(p) + 1) :
            /\ StartsAt(t, i, p)
            /\ \A j \in (i + 1)..(Len(t) - Len(p) + 1) : ~StartsAt(t, j, p)
    ELSE 0

\* str.count of a single character
CountChar(t, c) == Cardinality({i \in 1..Len(t) : t[i] = c})

\* str.replace(old, new): every non-overlapping occurrence, left to right
RECURSIVE ReplaceFrom(_, _, _, _)
ReplaceFrom(t, old, new, from) ==
    LET i == Find(t, old, from)
    IN IF i = 0 \/ Len(old) = 0
       THEN SubSeq(t, from, Len(t))
       ELSE SubSeq(t, from, i - 1) \o new \o ReplaceFrom(t, old, new, i + Len(old))

Replace(t, old, new) == ReplaceFrom(t, old, new, 1)

\* str.strip() / str.rstrip(): whitespace removed at the ends
RECURSIVE LStrip(_)
LStrip(t) == IF Len(t) > 0 /\ t[1] \in SpaceChars THEN LStrip(Tail(t)) ELSE t
RECURSIVE RStrip(_)
RStrip(t) == IF Len(t) > 0 /\ t[Len(t)] \in SpaceChars
             THEN RStrip(SubSeq(t, 1, Len(t) - 1)) ELSE t
Strip(t) == LStrip(RStrip(t))

\* ' '.join(words) and sep.join(parts)
RECURSIVE Join(_, _)
Join(parts, sep) ==
    IF Len(parts) = 0 THEN <<>>
    ELSE IF Len(parts) = 1 THEN parts[1]
    ELSE parts[1] \o sep \o Join(Tail(parts), sep)

\* str.split(): the maximal runs of non-whitespace characters
RECURSIVE SplitWords(_)
SplitWords(t) ==
    LET s == LStrip(t)
    IN IF Len(s) = 0 THEN <<>>
       ELSE LET n == IF \E k \in 1..Len(s) : s[k] \in SpaceChars
                     THEN (CHOOSE k \in 1..Len(s) :
                              /\ s[k] \in SpaceChars
                              /\ \A j \in 1..(k - 1) : s[j] \notin SpaceChars) - 1
                     ELSE Len(s)
            IN <<SubSeq(s, 1, n)>> \o SplitWords(SubSeq(s, n + 1, Len(s)))

\* length of the maximal run of characters of class cls starting at t[from]
RunLen(t, from, cls) ==
    IF from < 1 \/ from > Len(t) THEN 0
    ELSE (CHOOSE k \in from..(Len(t) + 1) :
             /\ k = Len(t) + 1 \/ t[k] \notin cls
             /\ \A j \in from..(k - 1) : t[j] \in cls) - from

\* the first index at or after from whose character is in cls, 0 when none
NextIn(t, from, cls) ==
    LET k == CHOOSE x \in from..(Len(t) + 1) :
                /\ x = Len(t) + 1 \/ t[x] \in cls
                /\ \A j \in from..(x - 1) : t[j] \notin cls
    IN IF from > Len(t) \/ k = Len(t) + 1 THEN 0 ELSE k

-----------------------------------------------------------------------------
(* Rationals: a Python float of the matcher, kept exact                     *)

RECURSIVE GCD(_, _)
GCD(a, b) == IF b = 0 THEN a ELSE GCD(b, a % b)

Rat(n, d) == LET g == GCD(n, d) IN [num |-> n \div g, den |-> d \div g]
RatAdd(x, y) == Rat(x.num * y.den + y.num * x.den, x.den * y.den)
RatMul(x, y) == Rat(x.num * y.num, x.den * y.den)
RatLess(x, y) == x.num * y.den < y.num * x.den
RatLeq(x, y) == x.num * y.den <= y.num * x.den
RatZero == Rat(0, 1)
RatOne == Rat(1, 1)

-----------------------------------------------------------------------------
(* difflib.SequenceMatcher(None, a, b).ratio()                              *)

\* length of the common run of a and b starting at a[i], b[j] inside the windows
RECURSIVE RunAt(_, _, _, _, _, _)
RunAt(a, b, i, j, ahi, bhi) ==
    IF i <= ahi /\ j <= bhi /\ a[i] = b[j]
    THEN 1 + RunAt(a, b, i + 1, j + 1, ahi, bhi)
    ELSE 0

\* find_longest_match: the longest block, earliest in a, then earliest in b
\* the first block of the longest size: lowest i, then lowest j
LongestBlock(runs, alo, ahi, blo, bhi) ==
    LET best == CHOOSE k \in Range(runs) : \A m \in Range(runs) : m <= k
    IN CHOOSE m \in [i : alo..ahi, j : blo..bhi, size : {best}] :
          /\ runs[<<m.i, m.j>>] = best
          /\ \A i2 \in alo..(m.i - 1) : \A j \in blo..bhi : runs[<<i2, j>>] # best
          /\ \A j2 \in blo..(m.j - 1) : runs[<<m.i, j2>>] # best

find_longest_match(a, b, alo, ahi, blo, bhi) ==
    LongestBlock([p \in (alo..ahi) \X (blo..bhi) |-> RunAt(a, b, p[1], p[2], ahi, bhi)],
                 alo, ahi, blo, bhi)

\* get_matching_blocks: the number of matched elements (sum of block sizes)
RECURSIVE MatchedCount(_, _, _, _, _, _)
RECURSIVE MatchedAround(_, _, _, _, _, _, _)
MatchedCount(a, b, alo, ahi, blo, bhi) ==
    IF alo > ahi \/ blo > bhi THEN 0
    ELSE MatchedAround(a, b, alo, ahi, blo, bhi, find_longest_match(a, b, alo, ahi, blo, bhi))
\* the block m, and the matches to its left and to its right
MatchedAround(a, b, alo, ahi, blo, bhi, m) ==
    IF m.size = 0 THEN 0
    ELSE m.size
         + MatchedCount(a, b, alo, m.i - 1, blo, m.j - 1)
         + MatchedCount(a, b, m.i + m.size, ahi, m.j + m.size, bhi)

\* ratio(): 2.0 * matches / (len(a) + len(b)), 1.0 for two empty sequences
ratio(a, b) ==
    IF Len(a) + Len(b) = 0 THEN RatOne
    ELSE Rat(2 * MatchedCount(a, b, 1, Len(a), 1, Len(b)), Len(a) + Len(b))

-----------------------------------------------------------------------------
(* The regular expressions of the matcher (Python re, as far as it is used) *)

\* characters re.escape puts a backslash before (Python >= 3.7)
ReSpecial == Range(Chars("()[]{}?*+-|^$\\.&~# \t\n\r"))

RECURSIVE re_escape(_)
re_escape(t) ==
    IF Len(t) = 0 THEN <<>>
    ELSE (IF t[1] \in ReSpecial THEN <<"\\", t[1]>> ELSE <<t[1]>>) \o re_escape(Tail(t))

ReFail == [ok |-> FALSE, groups |-> <<>>, stop |-> 0]

\* a regex text as a sequence of items: "bol" ^, "eol" $, "grp" (.+?),
\* "lit" a literal character, optional when followed by ?
RECURSIVE ParseRegex(_, _)
ParseRegex(r, i) ==
    IF i > Len(r) THEN <<>>
    ELSE IF StartsAt(r, i, Chars("(.+?)"))
         THEN <<[k |-> "grp", c |-> "", opt |-> FALSE]>> \o ParseRegex(r, i + 5)
    ELSE IF r[i] = "^" THEN <<[k |-> "bol", c |-> "", opt |-> FALSE]>> \o ParseRegex(r, i + 1)
    ELSE IF r[i] = "$" THEN <<[k |-> "eol", c |-> "", opt |-> FALSE]>> \o ParseRegex(r, i + 1)
    ELSE LET esc == r[i] = "\\" /\ i < Len(r)
             ch == IF esc THEN r[i + 1] ELSE r[i]
             nxt == IF esc THEN i + 2 ELSE i + 1
             opt == nxt <= Len(r) /\ r[nxt] = "?"
         IN <<[k |-> "lit", c |-> ch, opt |-> opt]>>
            \o ParseRegex(r, IF opt THEN nxt + 1 ELSE nxt)

\* backtracking match of items[idx..] at t[pos..] under re.IGNORECASE: the lazy
\* group tries the shortest extent first, an optional literal is tried present first
RECURSIVE MatchFrom(_, _, _, _)
RECURSIVE TryGroup(_, _, _, _, _)
MatchFrom(items, idx, t, pos) ==
    IF idx > Len(items) THEN [ok |-> TRUE, groups |-> <<>>, stop |-> pos]
    ELSE LET it == items[idx]
         IN CASE it.k = "bol" ->
                   IF pos = 1 THEN MatchFrom(items, idx + 1, t, pos) ELSE ReFail
              [] it.k = "eol" ->
                   IF pos = Len(t) + 1 \/ (pos = Len(t) /\ t[pos] = "\n")
                   THEN MatchFrom(items, idx + 1, t, pos) ELSE ReFail
              [] it.k = "grp" -> TryGroup(items, idx, t, pos, 1)
              [] OTHER ->
                   LET here == pos <= Len(t) /\ LowerChar(t[pos]) = LowerChar(it.c)
                       with == IF here THEN MatchFrom(items, idx + 1, t, pos + 1) ELSE ReFail
                   IN IF with.ok \/ ~it.opt THEN with
                      ELSE MatchFrom(items, idx + 1, t, pos)
TryGroup(items, idx, t, pos, n) ==
    IF pos + n - 1 > Len(t) \/ t[pos + n - 1] = "\n" THEN ReFail
    ELSE LET rest == MatchFrom(items, idx + 1, t, pos + n)
         IN IF rest.ok
            THEN [ok |-> TRUE, groups |-> <<SubSeq(t, pos, pos + n - 1)>> \o rest.groups,
                  stop |-> rest.stop]
            ELSE TryGroup(items, idx, t, pos, n + 1)

\* re.match(regex, t, re.IGNORECASE)
re_match(regex, t) == MatchFrom(ParseRegex(regex, 1), 1, t, 1)

\* re.search(regex, t, re.IGNORECASE): the leftmost start that matches
re_search(regex, t) ==
    LET items == ParseRegex(regex, 1)
        starts == {s \in 1..(Len(t) + 1) : MatchFrom(items, 1, t, s).ok}
    IN IF starts = {} THEN ReFail
       ELSE MatchFrom(items, 1, t, CHOOSE s \in starts : \A s2 \in starts : s <= s2)

-----------------------------------------------------------------------------
(* Templates, placeholders and Patterns (kb_query/core/entities.py)         *)

\* the next match of {[^}]+} in t at or after from: [s, e], or s = 0 when none
NextPlaceholder(t, from) ==
    LET ok(i) == /\ t[i] = "{"
                 /\ \E j \in (i + 2)..Len(t) :
                       /\ t[j] = "}"
                       /\ \A m \in (i + 1)..(j - 1) : t[m] # "}"
        cands == {i \in from..Len(t) : ok(i)}
    IN IF cands = {} THEN [s |-> 0, e |-> 0]
       ELSE LET i == CHOOSE x \in cands : \A y \in cands : x <= y
            IN [s |-> i, e |-> CHOOSE j \in (i + 2)..Len(t) :
                                  t[j] = "}" /\ \A m \in (i + 1)..(j - 1) : t[m] # "}"]

\* re.split(r'({[^}]+})', t): literal, placeholder, literal, ..., literal
RECURSIVE SplitTemplate(_, _)
SplitTemplate(t, from) ==
    LET m == NextPlaceholder(t, from)
    IN IF m.s = 0 THEN <<SubSeq(t, from, Len(t))>>
       ELSE <<SubSeq(t, from, m.s - 1), SubSeq(t, m.s, m.e)>> \o SplitTemplate(t, m.e + 1)

\* re.findall(r'{([^}]+)}', t): the placeholder names in template order
RECURSIVE FindPlaceholders(_, _)
FindPlaceholders(t, from) ==
    LET m == NextPlaceholder(t, from)
    IN IF m.s = 0 THEN <<>>
       ELSE <<SubSeq(t, m.s + 1, m.e - 1)>> \o FindPlaceholders(t, m.e + 1)

\* part.startswith('{') and part.endswith('}')
IsBraced(part) == Len(part) > 0 /\ part[1] = "{" /\ part[Len(part)] = "}"

StopWords == {Chars("the"), Chars("and"), Chars("or"), Chars("but"), Chars("in"),
              Chars("on"), Chars("at"), Chars("to"), Chars("for"), Chars("of"),
              Chars("with"), Chars("by"), Chars("a"), Chars("an")}

\* Pattern._extract_keywords: template words without placeholders, stop words
\* and words of one or two characters
_extract_keywords(template) ==
    LET parts == SplitTemplate(template, 1)
        text == Join([i \in 1..((Len(parts) + 1) \div 2) |-> parts[2 * i - 1]], <<>>)
        words == SplitWords(Lower(text))
        Keep(w) == Len(w) > 2 /\ w \notin StopWords
    IN SelectSeq(words, Keep)

\* Pattern(...): __post_init__ derives the keywords
MakePattern(id, template, sparql_template, examples) ==
    [id |-> id, template |-> template, sparql_template |-> sparql_template,
     examples |-> examples, keywords |-> _extract_keywords(template)]

\* Pattern._has_entity_placeholders: re.search(r'\{[^}]+\}', template)
_has_entity_placeholders(template) == NextPlaceholder(template, 1).s # 0

\* a validation that leaves the confidence unchecked, for comparison
Pattern_validate_any_confidence(id, template, sparql_template, examples, confidence) ==
    IF Len(id) = 0 THEN Some(Chars("Pattern ID cannot be empty"))
    ELSE IF ~_has_entity_placeholders(template)
    THEN Some(Chars("Pattern ") \o id \o Chars(" has no entity placeholders"))
    ELSE IF Len(examples) = 0
    THEN Some(Chars("Pattern ") \o id \o Chars(" must have at least one example"))
    ELSE IF Len(Strip(sparql_template)) = 0
    THEN Some(Chars("Pattern ") \o id \o Chars(" must have SPARQL template"))
    ELSE Nothing

\* Pattern.validate: the message of the ValidationError of the first check that
\* fails, Nothing when all pass
Pattern_validate(id, template, sparql_template, examples, confidence) ==
    IF Len(id) = 0 THEN Some(Chars("Pattern ID cannot be empty"))
    ELSE IF ~_has_entity_placeholders(template)
    THEN Some(Chars("Pattern ") \o id \o Chars(" has no entity placeholders"))
    ELSE IF ~(~RatLess(confidence, RatZero) /\ ~RatLess(RatOne, confidence))
    THEN Some(Chars("Pattern ") \o id \o Chars(" confidence must be between 0.0 and 1.0"))
    ELSE IF Len(examples) = 0
    THEN Some(Chars("Pattern ") \o id \o Chars(" must have at least one example"))
    ELSE IF Len(Strip(sparql_template)) = 0
    THEN Some(Chars("Pattern ") \o id \o Chars(" must have SPARQL template"))
    ELSE Nothing

\* what a constructor call comes to: the object, or the exception raised
Constructed(value) == [raised |-> "", message |-> <<>>, value |-> value]
Raised(exception, message) == [raised |-> exception, message |-> message, value |-> None]

\* Pattern(...) with its __post_init__: keywords derived, then validate()
Pattern(id, template, sparql_template, examples, confidence) ==
    LET error == Pattern_validate(id, template, sparql_template, examples, confidence)
    IN IF error # Nothing THEN Raised("ValidationError", error[1])
       ELSE Constructed([pattern |-> MakePattern(id, template, sparql_template, examples),
                         confidence |-> confidence])

\* a validation that lets pattern ids repeat, for comparison
Grammar_validate_ids_unchecked(patterns, ontology_hash) ==
    IF Len(patterns) = 0 THEN Some(Chars("Grammar must contain at least one pattern"))
    ELSE IF Len(ontology_hash) = 0 THEN Some(Chars("Grammar must have ontology hash"))
    ELSE Nothing

\* Grammar.validate: the message of the ValidationError raised, Nothing when valid
Grammar_validate(patterns, ontology_hash) ==
    IF Len(patterns) = 0 THEN Some(Chars("Grammar must contain at least one pattern"))
    ELSE IF Len(ontology_hash) = 0 THEN Some(Chars("Grammar must have ontology hash"))
    ELSE IF Len(patterns) # Cardinality({patterns[i].id : i \in 1..Len(patterns)})
    THEN Some(Chars("Grammar contains duplicate pattern IDs"))
    ELSE Nothing

\* Grammar(...) with its __post_init__: validate()
Grammar(patterns, ontology_hash, grammar_namespaces, created_at) ==
    LET error == Grammar_validate(patterns, ontology_hash)
    IN IF error # Nothing THEN Raised("ValidationError", error[1])
       ELSE Constructed([patterns |-> patterns, ontology_hash |-> ontology_hash,
                         namespaces |-> grammar_namespaces, created_at |-> created_at])

-----------------------------------------------------------------------------
(* PatternMatcher (kb_query/core/matcher.py)                                *)

\* _tokenize: re.findall(r"\w+(?:'\w+)?", text.lower())
RECURSIVE TokenizeFrom(_, _)
TokenizeFrom(t, from) ==
    LET i == NextIn(t, from, WordChars)
        n == RunLen(t, i, WordChars)
        j == i + n
        m == IF j <= Len(t) /\ t[j] = "'" THEN RunLen(t, j + 1, WordChars) ELSE 0
        stop == IF m > 0 THEN j + m ELSE j - 1
    IN IF i = 0 THEN <<>>
       ELSE <<SubSeq(t, i, stop)>> \o TokenizeFrom(t, stop + 1)

_tokenize(text) == TokenizeFrom(Lower(text), 1)

\* the word tokens of a literal part
WordTokens(ws) == [i \in 1..Len(ws) |-> [type |-> "word", name |-> <<>>, text |-> ws[i]]]

\* _tokenize_template: placeholders kept whole, literal parts tokenized
RECURSIVE TokenizeParts(_)
TokenizeParts(parts) ==
    IF Len(parts) = 0 THEN <<>>
    ELSE LET part == parts[1]
             here == IF Len(Strip(part)) = 0 THEN <<>>
                     ELSE IF IsBraced(part)
                     THEN <<[type |-> "placeholder",
                             name |-> SubSeq(part, 2, Len(part) - 1), text |-> part]>>
                     ELSE WordTokens(_tokenize(part))
         IN here \o TokenizeParts(Tail(parts))

_tokenize_template(template) == TokenizeParts(SplitTemplate(template, 1))

IsWordToken(tok) == tok.type = "word"
IsPlaceholderToken(tok) == tok.type = "placeholder"

\* the literal words of a tokenized template
PatternWords(pattern_tokens) ==
    LET ws == SelectSeq(pattern_tokens, IsWordToken)
    IN [i \in 1..Len(ws) |-> ws[i].text]

\* seq[:n]
Take(seq, n) == SubSeq(seq, 1, IF Len(seq) < n THEN Len(seq) ELSE n)

RECURSIVE RatSum(_)
RatSum(rs) == IF Len(rs) = 0 THEN RatZero ELSE RatAdd(rs[1], RatSum(Tail(rs)))

\* a scoring by the mean word ratio alone, for comparison
WordSimilarity_words_only(input_tokens, pattern_words) ==
    IF Len(pattern_words) = 0 THEN RatZero
    ELSE RatMul(RatSum([i \in 1..Len(pattern_words) |->
                           IF i <= Len(input_tokens)
                           THEN ratio(input_tokens[i], pattern_words[i])
                           ELSE RatZero]),
                Rat(1, Len(pattern_words)))

\* _calculate_token_similarity: 0.4 * sequence ratio + 0.6 * mean word ratio
WordSimilarity(input_tokens, pattern_words) ==
    IF Len(pattern_words) = 0 THEN RatZero
    ELSE RatAdd(RatMul(Rat(4, 10),
                       \* seq_similarity, over input_tokens[:len(pattern_words)]
                       ratio(Take(input_tokens, Len(pattern_words)), pattern_words)),
                RatMul(Rat(6, 10),
                       \* avg_word_similarity, a missing input token counting 0.0
                       RatMul(RatSum([i \in 1..Len(pattern_words) |->
                                         IF i <= Len(input_tokens)
                                         THEN ratio(input_tokens[i], pattern_words[i])
                                         ELSE RatZero]),
                              Rat(1, Len(pattern_words)))))

_calculate_token_similarity(input_tokens, pattern_tokens) ==
    WordSimilarity(input_tokens, PatternWords(pattern_tokens))

\* _template_to_regex: escaped template, each placeholder a lazy group, anchored
RECURSIVE SubPlaceholders(_, _)
SubPlaceholders(r, from) ==
    \* re.sub(r'\\{([^}]+)\\}', r'(.+?)', r): \{ name \} becomes (.+?)
    LET ok(i) == /\ StartsAt(r, i, <<"\\", "{">>)
                 /\ \E j \in (i + 4)..Len(r) :
                       /\ r[j] = "}" /\ r[j - 1] = "\\"
                       /\ \A m \in (i + 2)..(j - 1) : r[m] # "}"
        cands == {i \in from..Len(r) : ok(i)}
    IN IF cands = {} THEN SubSeq(r, from, Len(r))
       ELSE LET i == CHOOSE x \in cands : \A y \in cands : x <= y
                j == CHOOSE x \in (i + 4)..Len(r) :
                        r[x] = "}" /\ \A m \in (i + 2)..(x - 1) : r[m] # "}"
            IN SubSeq(r, from, i - 1) \o Chars("(.+?)") \o SubPlaceholders(r, j + 1)

_template_to_regex(template) ==
    LET escaped == re_escape(template)
        grouped == SubPlaceholders(escaped, 1)
        possessive == Replace(grouped, <<"\\", "'", "s">>, Chars("'?s?"))
    IN <<"^">> \o possessive \o <<"$">>

\* dict[key] = value on a dict kept as (name, value) pairs in insertion order
DictPut(d, key, value) ==
    IF \E i \in 1..Len(d) : d[i].name = key
    THEN [i \in 1..Len(d) |-> IF d[i].name = key THEN [name |-> key, value |-> value] ELSE d[i]]
    ELSE Append(d, [name |-> key, value |-> value])

\* entities[placeholder] = group(i + 1).strip() for the i-th placeholder
RECURSIVE AssignGroups(_, _, _, _)
AssignGroups(placeholders, groups, i, acc) ==
    IF i > Len(placeholders) THEN acc
    ELSE AssignGroups(placeholders, groups, i + 1,
                      IF i <= Len(groups)
                      THEN DictPut(acc, placeholders[i], Strip(groups[i]))
                      ELSE acc)

_extract_entities_from_match(m, pattern) ==
    AssignGroups(FindPlaceholders(pattern.template, 1), m.groups, 1, <<>>)

\* _extract_entities_positional: unanchored search of the template's regex
PositionalGroups(placeholders, m) ==
    IF Len(placeholders) = 0 \/ ~m.ok THEN <<>>
    ELSE AssignGroups(placeholders, m.groups, 1, <<>>)

\* placeholders and regex_parts: each placeholder a lazy group, each literal
\* part escaped
PositionalParts(input_text, template_parts) ==
    LET braced == SelectSeq(template_parts, IsBraced)
        regex_parts == [i \in 1..Len(template_parts) |->
                           IF IsBraced(template_parts[i]) THEN Chars("(.+?)")
                           ELSE re_escape(template_parts[i])]
    IN PositionalGroups([i \in 1..Len(braced) |-> SubSeq(braced[i], 2, Len(braced[i]) - 1)],
                        re_search(Join(regex_parts, <<>>), input_text))

_extract_entities_positional(input_text, pattern) ==
    PositionalParts(input_text, SplitTemplate(pattern.template, 1))

\* _reconstruct_entity_from_tokens: the words of the input from the first
\* occurrence of the first token on, else the (lower-cased) tokens
_reconstruct_entity_from_tokens(original_text, tokens) ==
    LET token_pos == Find(Lower(original_text), Lower(tokens[1]), 1)
        words == SplitWords(SubSeq(original_text, token_pos, Len(original_text)))
    IN IF token_pos # 0 /\ Len(words) >= Len(tokens)
       THEN Join(SubSeq(words, 1, Len(tokens)), <<" ">>)
       ELSE Join(tokens, <<" ">>)

\* the loop of _extract_entities_fuzzy_flexible over (pattern word, input token):
\* the input index of the first pair with the highest ratio above 0.6, 0 if none
RECURSIVE BestMatchIdx(_, _, _, _, _, _)
RECURSIVE BestMatchStep(_, _, _, _, _, _, _)
BestMatchIdx(pattern_words, input_tokens, i, j, best_similarity, best_match_idx) ==
    IF i > Len(pattern_words) THEN best_match_idx
    ELSE IF j > Len(input_tokens)
    THEN BestMatchIdx(pattern_words, input_tokens, i + 1, 1, best_similarity, best_match_idx)
    ELSE BestMatchStep(pattern_words, input_tokens, i, j, best_similarity, best_match_idx,
                       ratio(input_tokens[j], pattern_words[i]))
\* if similarity > best_similarity and similarity > 0.6: a new best pair
BestMatchStep(pattern_words, input_tokens, i, j, best_similarity, best_match_idx, similarity) ==
    IF RatLess(best_similarity, similarity) /\ RatLess(Rat(6, 10), similarity)
    THEN BestMatchIdx(pattern_words, input_tokens, i, j + 1, similarity, j)
    ELSE BestMatchIdx(pattern_words, input_tokens, i, j + 1, best_similarity, best_match_idx)

\* the single placeholder takes the input tokens after the best matching one
FlexibleEntity(input_text, input_tokens, phs, pattern_words, best_match_idx) ==
    IF Len(phs) = 1 /\ Len(pattern_words) >= 1
       /\ best_match_idx # 0 /\ best_match_idx < Len(input_tokens)
    THEN <<[name |-> phs[1].name,
            value |-> _reconstruct_entity_from_tokens(
                          input_text,
                          SubSeq(input_tokens, best_match_idx + 1, Len(input_tokens)))]>>
    ELSE <<>>

FlexibleTokens(input_text, input_tokens, pattern_tokens) ==
    FlexibleEntity(input_text, input_tokens, SelectSeq(pattern_tokens, IsPlaceholderToken),
                   PatternWords(pattern_tokens),
                   BestMatchIdx(PatternWords(pattern_tokens), input_tokens, 1, 1, RatZero, 0))

_extract_entities_fuzzy_flexible(input_text, pattern) ==
    FlexibleTokens(input_text, _tokenize(input_text), _tokenize_template(pattern.template))

\* entities, or the fallback when there are none
OrIfEmpty(entities, fallback) == IF Len(entities) = 0 THEN fallback ELSE entities

\* _extract_entities_fuzzy: positional first, the flexible fallback when it is empty
_extract_entities_fuzzy(input_text, pattern) ==
    OrIfEmpty(_extract_entities_positional(input_text, pattern),
              _extract_entities_fuzzy_flexible(input_text, pattern))

\* extract_entities: the anchored regex, else the positional search
extract_entities(text, pattern) ==
    LET m == re_match(_template_to_regex(pattern.template), text)
    IN IF m.ok THEN _extract_entities_from_match(m, pattern)
       ELSE _extract_entities_positional(text, pattern)

\* _try_exact_match
_try_exact_match(input_text, pattern) ==
    LET m == re_match(_template_to_regex(pattern.template), input_text)
    IN IF m.ok
       THEN [pattern |-> pattern, confidence |-> RatOne,
             entities |-> _extract_entities_from_match(m, pattern), match_type |-> "exact"]
       ELSE None

\* _try_fuzzy_match
FuzzyResult(th, similarity, input_text, pattern) ==
    IF RatLeq(th, similarity)
    THEN [pattern |-> pattern, confidence |-> similarity,
          entities |-> _extract_entities_fuzzy(input_text, pattern), match_type |-> "fuzzy"]
    ELSE None

_try_fuzzy_match(th, input_text, pattern) ==
    FuzzyResult(th,
                _calculate_token_similarity(_tokenize(input_text),
                                            _tokenize_template(pattern.template)),
                input_text, pattern)

\* first, or second when first is None
OrElse(first, second) == IF first # None THEN first ELSE second

\* a matcher that tries the fuzzy comparison before the exact one
_match_pattern_fuzzy_first(th, input_text, pattern) ==
    OrElse(_try_fuzzy_match(th, input_text, pattern), _try_exact_match(input_text, pattern))

\* _match_pattern: exact first, fuzzy only when exact fails
_match_pattern(th, input_text, pattern) ==
    OrElse(_try_exact_match(input_text, pattern), _try_fuzzy_match(th, input_text, pattern))

\* a descending sort that puts a later element ahead of its equals
RECURSIVE SortByConfidence_unstable(_)
SortByConfidence_unstable(ms) ==
    IF Len(ms) <= 1 THEN ms
    ELSE LET sorted == SortByConfidence_unstable(SubSeq(ms, 1, Len(ms) - 1))
             x == ms[Len(ms)]
             k == Cardinality({i \in 1..Len(sorted) : RatLess(x.confidence, sorted[i].confidence)})
         IN SubSeq(sorted, 1, k) \o <<x>> \o SubSeq(sorted, k + 1, Len(sorted))

\* list.sort(key=confidence, reverse=True): stable, equal keys keep their order
RECURSIVE SortByConfidence(_)
SortByConfidence(ms) ==
    IF Len(ms) <= 1 THEN ms
    ELSE LET sorted == SortByConfidence(SubSeq(ms, 1, Len(ms) - 1))
             x == ms[Len(ms)]
             \* x goes after every element whose confidence is >= its own
             k == Cardinality({i \in 1..Len(sorted) : RatLeq(x.confidence, sorted[i].confidence)})
         IN SubSeq(sorted, 1, k) \o <<x>> \o SubSeq(sorted, k + 1, Len(sorted))

\* if match_result and match_result.confidence >= self.similarity_threshold
KeptMatch(th, match_result) ==
    IF match_result # None /\ RatLeq(th, match_result.confidence)
    THEN <<match_result>> ELSE <<>>

\* a loop that stops at the first pattern that matches
RECURSIVE CollectMatches_first_only(_, _, _, _)
CollectMatches_first_only(th, input_text, patterns, i) ==
    IF i > Len(patterns) THEN <<>>
    ELSE OrIfEmpty(KeptMatch(th, _match_pattern(th, input_text, patterns[i])),
                   CollectMatches_first_only(th, input_text, patterns, i + 1))

\* the loop of find_matches: every pattern scored, those at or above the threshold kept
RECURSIVE CollectMatches(_, _, _, _)
CollectMatches(th, input_text, patterns, i) ==
    IF i > Len(patterns) THEN <<>>
    ELSE KeptMatch(th, _match_pattern(th, input_text, patterns[i]))
         \o CollectMatches(th, input_text, patterns, i + 1)

find_matches(th, input_text, g) == SortByConfidence(CollectMatches(th, input_text, g, 1))

-----------------------------------------------------------------------------
(* SPARQLBuilder (kb_query/core/builder.py)                                 *)

\* the quotes escaped before the backslashes
_escape_sparql_string_quotes_first(value) ==
    LET v1 == Replace(value, <<"\"">>, <<"\\", "\"">>)
        v2 == Replace(v1, <<"\\">>, <<"\\", "\\">>)
        v3 == Replace(v2, <<"\n">>, <<"\\", "n">>)
        v4 == Replace(v3, <<"\r">>, <<"\\", "r">>)
    IN Replace(v4, <<"\t">>, <<"\\", "t">>)

\* _escape_sparql_string: backslash first, then quote, newline, CR and tab
_escape_sparql_string(value) ==
    LET v1 == Replace(value, <<"\\">>, <<"\\", "\\">>)
        v2 == Replace(v1, <<"\"">>, <<"\\", "\"">>)
        v3 == Replace(v2, <<"\n">>, <<"\\", "n">>)
        v4 == Replace(v3, <<"\r">>, <<"\\", "r">>)
    IN Replace(v4, <<"\t">>, <<"\\", "t">>)

\* the substitution loop of build_query, entities in dict order
RECURSIVE SubstituteEntities(_, _, _)
SubstituteEntities(sparql, entities, i) ==
    IF i > Len(entities) THEN sparql
    ELSE SubstituteEntities(
             Replace(sparql, <<"{">> \o entities[i].name \o <<"}">>,
                     _escape_sparql_string(entities[i].value)),
             entities, i + 1)

\* _add_namespaces: PREFIX lines in front unless the text already says PREFIX
_add_namespaces(ns, sparql) ==
    IF Len(ns) = 0 \/ Contains(Upper(sparql), Chars("PREFIX")) THEN sparql
    ELSE Join([i \in 1..Len(ns) |->
                  Chars("PREFIX ") \o ns[i].prefix \o Chars(": <") \o ns[i].uri \o <<">">>],
              <<"\n">>)
         \o <<"\n">> \o sparql

\* str.split('\n')
RECURSIVE SplitLines(_)
SplitLines(t) ==
    LET i == Find(t, <<"\n">>, 1)
    IN IF i = 0 THEN <<t>>
       ELSE <<SubSeq(t, 1, i - 1)>> \o SplitLines(SubSeq(t, i + 1, Len(t)))

\* re.search(r'WHERE\s*\{(.*)\}', sparql, DOTALL | IGNORECASE):
\* [s, open, close]: WHERE at s, its { at open, the last } of the text at close
WhereIn(sparql, up, last) ==
    LET cands == {i \in 1..Len(sparql) :
                     /\ StartsAt(up, i, Chars("WHERE"))
                     /\ i + 5 + RunLen(sparql, i + 5, SpaceChars) <= Len(sparql)
                     /\ sparql[i + 5 + RunLen(sparql, i + 5, SpaceChars)] = "{"
                     /\ last > i + 5 + RunLen(sparql, i + 5, SpaceChars)}
    IN IF cands = {} THEN [s |-> 0, open |-> 0, close |-> 0]
       ELSE CHOOSE m \in [s : cands, open : 1..Len(sparql), close : {last}] :
               /\ \A y \in cands : m.s <= y
               /\ m.open = m.s + 5 + RunLen(sparql, m.s + 5, SpaceChars)

WhereMatch(sparql) == WhereIn(sparql, Upper(sparql), RFind(sparql, <<"}">>))

\* a wrapping that puts every graph after the first into the first one's block,
\* for comparison
NewWhere_first_graph_only(graphs_to_query, where_content) ==
    Chars("\n  GRAPH <") \o graphs_to_query[1] \o Chars("> {\n    ")
    \o where_content \o Chars("\n  }\n")

\* _add_graph_clauses: the WHERE body wrapped in one GRAPH block per graph
\* new_where: a single graph wraps the content, several graphs make a UNION
NewWhere(graphs_to_query, where_content) ==
    IF Len(graphs_to_query) = 1
    THEN Chars("\n  GRAPH <") \o graphs_to_query[1] \o Chars("> {\n    ")
         \o where_content \o Chars("\n  }\n")
    ELSE <<"\n">>
         \* graph_blocks: one per graph, the content indented, joined by UNION
         \o Join([i \in 1..Len(graphs_to_query) |->
                     Chars("  {\n    GRAPH <") \o graphs_to_query[i] \o Chars("> {\n      ")
                     \o Join(SplitLines(where_content), Chars("\n    "))
                     \o Chars("\n    }\n  }")],
                 Chars("\n  UNION\n"))
         \o <<"\n">>

\* the text with the WHERE clause where_match replaced
GraphWrapped(sparql, where_match, graphs_to_query) ==
    IF where_match.s = 0 THEN sparql
    ELSE SubSeq(sparql, 1, where_match.s - 1) \o Chars("WHERE {")
         \o NewWhere(graphs_to_query,
                     Strip(SubSeq(sparql, where_match.open + 1, where_match.close - 1)))
         \o <<"}">>
         \o SubSeq(sparql, where_match.close + 1, Len(sparql))

_add_graph_clauses(sparql, named_graphs, default_graph) ==
    IF Len(named_graphs) = 0 /\ Len(default_graph) = 0 THEN sparql
    ELSE GraphWrapped(sparql, WhereMatch(sparql),
                      (IF Len(default_graph) > 0 THEN <<default_graph>> ELSE <<>>)
                      \o named_graphs)

\* re.findall(r'\?(\w+)', t)
RECURSIVE FindVars(_, _)
FindVars(t, from) ==
    LET i == NextIn(t, from, {"?"})
        n == RunLen(t, i + 1, WordChars)
    IN IF i = 0 THEN <<>>
       ELSE IF n = 0 THEN FindVars(t, i + 1)
       ELSE <<SubSeq(t, i + 1, i + n)>> \o FindVars(t, i + n + 1)

\* the first occurrence of each element, in order
RECURSIVE Unique(_)
Unique(seq) ==
    IF Len(seq) = 0 THEN <<>>
    ELSE LET rest == Unique(SubSeq(seq, 1, Len(seq) - 1))
             x == seq[Len(seq)]
         IN IF \E i \in 1..Len(rest) : rest[i] = x THEN rest ELSE Append(rest, x)

\* re.search(r'SELECT\s+(.*?)\s+WHERE', t, IGNORECASE | DOTALL): group 1 as
\* [ok, from, to]
\* the ends e of a non-empty group 1 starting at g: a whitespace run at e + 1
\* followed by WHERE
SelectEnds(t, up, g) ==
    {e \in g..Len(t) : /\ e + 1 <= Len(t) /\ t[e + 1] \in SpaceChars
                       /\ StartsAt(up, e + 1 + RunLen(t, e + 1, SpaceChars), Chars("WHERE"))}

\* group 1 for the SELECT at s: from g, after the whitespace run, to the first
\* end, or empty (the whitespace run split in two) when there is no end
SelectFirst(t, up, s) ==
    LET g == s + 6 + RunLen(t, s + 6, SpaceChars)
        far == SelectEnds(t, up, g)
    IN IF far # {}
       THEN [ok |-> TRUE, from |-> g, to |-> CHOOSE e \in far : \A e2 \in far : e <= e2]
       ELSE [ok |-> TRUE, from |-> g - 1, to |-> g - 2]

SelectIn(t, up) ==
    LET cands == {s \in 1..Len(t) :
                     /\ StartsAt(up, s, Chars("SELECT"))
                     /\ RunLen(t, s + 6, SpaceChars) >= 1
                     /\ \/ SelectEnds(t, up, s + 6 + RunLen(t, s + 6, SpaceChars)) # {}
                        \/ /\ RunLen(t, s + 6, SpaceChars) >= 2
                           /\ StartsAt(up, s + 6 + RunLen(t, s + 6, SpaceChars), Chars("WHERE"))}
    IN IF cands = {} THEN [ok |-> FALSE, from |-> 0, to |-> 0]
       ELSE SelectFirst(t, up, CHOOSE x \in cands : \A y \in cands : x <= y)

SelectMatch(t) == SelectIn(t, Upper(t))

\* _extract_variables
\* SELECT *: every variable of the text, else the variables of the clause
SelectedVariables(sparql, select_match) ==
    LET select_clause == SubSeq(sparql, select_match.from, select_match.to)
    IN IF ~select_match.ok THEN <<>>
       ELSE Unique(FindVars(IF Contains(select_clause, <<"*">>) THEN sparql
                            ELSE select_clause, 1))

_extract_variables(sparql) == SelectedVariables(sparql, SelectMatch(sparql))

\* a validation that does not count the parentheses
validate_sparql_braces_only(sparql) ==
    LET sparql_upper == Upper(sparql)
    IN /\ \E kw \in {Chars("SELECT"), Chars("CONSTRUCT"), Chars("ASK"), Chars("DESCRIBE")} :
             Contains(sparql_upper, kw)
       /\ ~(Contains(sparql_upper, Chars("SELECT")) /\ ~Contains(sparql_upper, Chars("WHERE")))
       /\ CountChar(sparql, "{") = CountChar(sparql, "}")

\* validate_sparql
validate_sparql(sparql) ==
    LET sparql_upper == Upper(sparql)
    IN /\ \E kw \in {Chars("SELECT"), Chars("CONSTRUCT"), Chars("ASK"), Chars("DESCRIBE")} :
             Contains(sparql_upper, kw)
       /\ ~(Contains(sparql_upper, Chars("SELECT")) /\ ~Contains(sparql_upper, Chars("WHERE")))
       /\ CountChar(sparql, "{") = CountChar(sparql, "}")
       /\ CountChar(sparql, "(") = CountChar(sparql, ")")

\* len(re.findall(r'\?[\w]+\s+[\w:]+\s+\?[\w]+', t)): non-overlapping, left to right
RECURSIVE CountTriples(_, _)
\* the position after a non-empty run of the characters cs at p, 0 when the run
\* is empty or p is 0
AfterRun(t, p, cs) == IF p = 0 \/ RunLen(t, p, cs) = 0 THEN 0 ELSE p + RunLen(t, p, cs)

\* the position after ?\w+ at p, 0 when it is not there
AfterVar(t, p) == IF p = 0 \/ p > Len(t) \/ t[p] # "?" THEN 0 ELSE AfterRun(t, p + 1, WordChars)

\* the position after ?\w+\s+[\w:]+\s+?\w+ at i, 0 when it does not match
\* there: every run is greedy and no shorter run can match
AfterTriple(t, i) ==
    AfterVar(t, AfterRun(t, AfterRun(t, AfterRun(t, AfterVar(t, i), SpaceChars),
                                     WordChars \cup {":"}),
                         SpaceChars))

CountTriples(t, from) ==
    LET i == NextIn(t, from, {"?"})
    IN IF i = 0 THEN 0
       ELSE IF AfterTriple(t, i) # 0 THEN 1 + CountTriples(t, AfterTriple(t, i))
       ELSE CountTriples(t, i + 1)

\* _estimate_complexity
\* the base 1 and one point per feature, at most 5
Complexity(up, triple_count) ==
    LET complexity == 1 + (IF triple_count > 3 THEN 1 ELSE 0)
                        + (IF triple_count > 5 THEN 1 ELSE 0)
                        + (IF Contains(up, Chars("FILTER")) THEN 1 ELSE 0)
                        + (IF Contains(up, Chars("OPTIONAL")) THEN 1 ELSE 0)
                        + (IF \E f \in {Chars("COUNT"), Chars("SUM"), Chars("AVG"),
                                        Chars("MIN"), Chars("MAX")} : Contains(up, f)
                           THEN 1 ELSE 0)
    IN IF complexity < 5 THEN complexity ELSE 5

_estimate_complexity(sparql) == Complexity(Upper(sparql), CountTriples(sparql, 1))

\* sparql[:100]
Prefix100(t) == SubSeq(t, 1, IF Len(t) < 100 THEN Len(t) ELSE 100)

\* build_query: a SPARQLQuery, or the SPARQLError it raises (with the text
\* `sparql` it had reached)
\* the validation of the finished text, and the SPARQLQuery made of it
Validated(sparql) ==
    IF ~validate_sparql(sparql)
    THEN [ok |-> FALSE, sparql |-> sparql,
          error |-> Chars("Invalid SPARQL generated: ") \o Prefix100(sparql) \o Chars("...")]
    ELSE IF Len(Strip(sparql)) = 0
    THEN [ok |-> FALSE, sparql |-> sparql,
          error |-> Chars("Failed to build SPARQL query: SPARQL query text cannot be empty")]
    ELSE [ok |-> TRUE, query_text |-> sparql, variables |-> _extract_variables(sparql),
          estimated_complexity |-> _estimate_complexity(sparql)]

\* if named_graphs or default_graph: the graph clauses around the WHERE body
InGraphs(sparql, named_graphs, default_graph) ==
    IF Len(named_graphs) > 0 \/ Len(default_graph) > 0
    THEN _add_graph_clauses(sparql, named_graphs, default_graph)
    ELSE sparql

build_query(ns, match_result, named_graphs, default_graph) ==
    Validated(InGraphs(_add_namespaces(ns, SubstituteEntities(
                                               match_result.pattern.sparql_template,
                                               match_result.entities, 1)),
                       named_graphs, default_graph))

\* str(limit) for a positive integer
RECURSIVE IntToText(_)
IntToText(n) == IF n < 10 THEN <<Digits[n + 1]>>
                ELSE IntToText(n \div 10) \o <<Digits[(n % 10) + 1]>>

\* re.sub(r'\s+LIMIT\s+\d+\s*$', '', t, flags=IGNORECASE)
\* the position after \s+LIMIT\s+\d+ at s, 0 when it does not match there
AfterLimit(t, s) ==
    LET p == AfterRun(t, s, SpaceChars)
    IN AfterRun(t, AfterRun(t, IF /\ p # 0 /\ p + 4 <= Len(t)
                                  /\ Upper(SubSeq(t, p, p + 4)) = Chars("LIMIT")
                               THEN p + 5 ELSE 0,
                            SpaceChars),
                DigitSet)

CutAtFirst(t, cands) ==
    IF cands = {} THEN t
    ELSE SubSeq(t, 1, (CHOOSE x \in cands : \A y \in cands : x <= y) - 1)

StripLimit(t) ==
    CutAtFirst(t, {s \in 1..Len(t) :
                      LET stop == AfterLimit(t, s)
                      IN stop # 0 /\ stop + RunLen(t, stop, SpaceChars) = Len(t) + 1})

\* add_limit
\* if not sparql.endswith('}'): cut after the last }, if there is one
LimitAppended(stripped, limit) ==
    (IF Len(stripped) > 0 /\ stripped[Len(stripped)] = "}" THEN stripped
     ELSE IF RFind(stripped, <<"}">>) # 0 THEN SubSeq(stripped, 1, RFind(stripped, <<"}">>))
     ELSE stripped)
    \o Chars("\nLIMIT ") \o IntToText(limit)

\* an add_limit that leaves a LIMIT already there in place, for comparison
add_limit_keeping_old(sparql, limit) == LimitAppended(RStrip(sparql), limit)

add_limit(sparql, limit) == LimitAppended(RStrip(StripLimit(sparql)), limit)

\* the loop of optimize_query: each line goes to filters, patterns or other
RECURSIVE SortLines(_, _, _, _)
SortLines(lines, i, in_where, sorted) ==
    IF i > Len(lines) THEN sorted
    ELSE LET line == lines[i]
             line_stripped == Strip(line)
         IN IF Contains(line_stripped, Chars("WHERE"))
            THEN SortLines(lines, i + 1, TRUE, [sorted EXCEPT !.other = Append(@, line)])
            ELSE IF in_where /\ StartsAt(line_stripped, 1, Chars("FILTER"))
            THEN SortLines(lines, i + 1, in_where,
                           [sorted EXCEPT !.filters = Append(@, line)])
            ELSE IF in_where /\ (\/ StartsAt(line_stripped, 1, <<"?">>)
                                 \/ StartsAt(line_stripped, 1, <<"<">>))
            THEN SortLines(lines, i + 1, in_where,
                           [sorted EXCEPT !.patterns = Append(@, line)])
            ELSE SortLines(lines, i + 1, in_where, [sorted EXCEPT !.other = Append(@, line)])

\* while remaining_start < len(other) and other[remaining_start].strip() in ['', '}']
RECURSIVE RemainingStart(_, _)
RemainingStart(other, remaining_start) ==
    IF remaining_start <= Len(other)
       /\ Strip(other[remaining_start]) \in {<<>>, <<"}">>}
    THEN RemainingStart(other, remaining_start + 1)
    ELSE remaining_start

\* the lines put together again: up to WHERE, patterns, filters, the remaining
Reconstructed(sorted) ==
    LET other == sorted.other
        where_idx == CHOOSE i \in 1..Len(other) :
                        /\ Contains(other[i], Chars("WHERE"))
                        /\ \A j \in 1..(i - 1) : ~Contains(other[j], Chars("WHERE"))
        remaining_start == RemainingStart(other, where_idx + 1)
    IN SubSeq(other, 1, where_idx) \o sorted.patterns \o sorted.filters
       \o SubSeq(other, remaining_start, Len(other))

\* optimize_query
optimize_query(sparql) ==
    LET sorted == SortLines(SplitLines(sparql), 1, FALSE,
                            [filters |-> <<>>, patterns |-> <<>>, other |-> <<>>])
    IN IF Len(sorted.filters) > 0 /\ Len(sorted.patterns) > 0
       THEN Join(Reconstructed(sorted), <<"\n">>)
       ELSE sparql

-----------------------------------------------------------------------------
(* QueryService (kb_query/services/query.py)                                *)

\* _calculate_keyword_similarity > 0.3: matching keywords / keywords
KeywordSimilar(input_tokens, keywords) ==
    /\ Len(keywords) > 0
    /\ 10 * Cardinality({i \in 1..Len(keywords) :
                            \E j \in 1..Len(input_tokens) : input_tokens[j] = keywords[i]})
          > 3 * Len(keywords)

\* any(word in pattern_words for word in input_tokens)
AnyShared(input_tokens, pattern_words) ==
    \E j \in 1..Len(input_tokens) :
       \E m \in 1..Len(pattern_words) : input_tokens[j] = pattern_words[m]

\* the loop of suggest_corrections over the patterns, in grammar order
RECURSIVE CollectSuggestions(_, _, _)
CollectSuggestions(input_tokens, patterns, i) ==
    IF i > Len(patterns) THEN <<>>
    ELSE (IF KeywordSimilar(input_tokens, patterns[i].keywords)
          THEN Take(patterns[i].examples, 2) ELSE <<>>)
         \o (IF AnyShared(input_tokens, _tokenize(Lower(patterns[i].template)))
             THEN Take(patterns[i].examples, 1) ELSE <<>>)
         \o CollectSuggestions(input_tokens, patterns, i + 1)

\* suggest_corrections that returns the first five without removing duplicates
suggest_corrections_with_duplicates(input_text, g) ==
    Take(CollectSuggestions(_tokenize(Lower(input_text)), g, 1), 5)

\* suggest_corrections: duplicates removed, the first five kept
suggest_corrections(input_text, g) ==
    Take(Unique(CollectSuggestions(_tokenize(Lower(input_text)), g, 1)), 5)

\* QueryResponse(...) without its execution_time
QueryResponse(success, sparql_query, error_message, suggestions, debug_info) ==
    [success |-> success, sparql_query |-> sparql_query, error_message |-> error_message,
     suggestions |-> suggestions, debug_info |-> debug_info]

\* a failure response that leaves the suggestions out
NoMatchResponse_bare(req, g) ==
    QueryResponse(FALSE, Nothing,
                  Some(Chars("Could not understand query: ") \o req.input_text),
                  Nothing, None)

\* process_query after find_matches found nothing
NoMatchResponse(req, g) ==
    QueryResponse(FALSE, Nothing,
                  Some(Chars("Could not understand query: ") \o req.input_text),
                  Some(suggest_corrections(req.input_text, g)), None)

\* a success response that carries the query text whatever the flags
BuiltResponse_always_text(req, best, b) ==
    IF ~b.ok THEN QueryResponse(FALSE, Nothing, Some(b.error), Nothing, None)
    ELSE QueryResponse(TRUE,
                       Some(IF req.limit # 0 THEN add_limit(b.query_text, req.limit)
                            ELSE b.query_text),
                       Nothing, Nothing,
                       IF req.debug
                       THEN [matched_pattern |-> best.pattern.template,
                             confidence |-> best.confidence,
                             match_type |-> best.match_type,
                             extracted_entities |-> best.entities,
                             pattern_id |-> best.pattern.id,
                             sparql_complexity |-> b.estimated_complexity]
                       ELSE None)

\* process_query after build_query returned or raised
BuiltResponse(req, best, b) ==
    IF ~b.ok THEN QueryResponse(FALSE, Nothing, Some(b.error), Nothing, None)
    ELSE QueryResponse(TRUE,
                       IF req.show_sparql \/ req.debug
                       THEN Some(IF req.limit # 0 THEN add_limit(b.query_text, req.limit)
                                 ELSE b.query_text)
                       ELSE Nothing,
                       Nothing, Nothing,
                       IF req.debug
                       THEN [matched_pattern |-> best.pattern.template,
                             confidence |-> best.confidence,
                             match_type |-> best.match_type,
                             extracted_entities |-> best.entities,
                             pattern_id |-> best.pattern.id,
                             sparql_complexity |-> b.estimated_complexity]
                       ELSE None)

-----------------------------------------------------------------------------
(* GrammarEngine: the patterns generated for an ontology                    *)
(* (kb_query/core/grammar.py)                                               *)

\* text.split(sep)[-1] for a one-character separator
LastAfter(t, sep) == SubSeq(t, RFind(t, <<sep>>) + 1, Len(t))

\* _simplify_class_name
_simplify_class_name(class_uri) ==
    IF Len(class_uri) = 0 THEN Chars("entity")
    ELSE IF Contains(class_uri, <<"#">>) THEN LastAfter(class_uri, "#")
    ELSE IF Contains(class_uri, <<"/">>) THEN LastAfter(class_uri, "/")
    ELSE IF Contains(class_uri, <<":">>) THEN LastAfter(class_uri, ":")
    ELSE class_uri

\* _extract_base_name
_extract_base_name(property_name) ==
    LET local_name == IF Contains(property_name, <<"#">>) THEN LastAfter(property_name, "#")
                      ELSE IF Contains(property_name, <<"/">>) THEN LastAfter(property_name, "/")
                      ELSE IF Contains(property_name, <<":">>) THEN LastAfter(property_name, ":")
                      ELSE property_name
        low == Lower(local_name)
    IN IF StartsAt(low, 1, Chars("has")) THEN SubSeq(low, 4, Len(low))
       ELSE IF StartsAt(low, 1, Chars("is")) THEN SubSeq(low, 3, Len(low))
       ELSE low

\* _generate_sparql_template
_generate_sparql_template(prop_name, domain_simple, range_simple) ==
    Chars("SELECT ?") \o domain_simple \o Chars(" ?") \o range_simple \o Chars("_name\nWHERE {\n  ?")
    \o domain_simple \o Chars(" <") \o prop_name \o Chars("> ?") \o range_simple \o Chars(" .\n  ?")
    \o range_simple \o Chars(" <http://xmlns.com/foaf/0.1/name> ?") \o range_simple
    \o Chars("_name .\n  FILTER (lcase(str(?") \o range_simple \o Chars("_name)) = lcase(\"{")
    \o range_simple \o Chars("}\"))\n}")

\* _generate_sparql_datatype_template
_generate_sparql_datatype_template(prop_name, domain_simple, value_name) ==
    Chars("SELECT ?") \o domain_simple \o Chars("\nWHERE {\n  ?") \o domain_simple
    \o Chars(" <") \o prop_name \o Chars("> ?") \o value_name
    \o Chars(" .\n  FILTER (lcase(str(?") \o value_name \o Chars(")) = lcase(\"{")
    \o value_name \o Chars("}\"))\n}")

\* _generate_property_patterns
\* the patterns of a property, given its base name and simplified class names
PropertyPatterns(prop_info, base_name, domain_simple, range_simple) ==
    IF prop_info.type = "object_property" /\ Len(prop_info.domain) > 0
       /\ Len(prop_info.range) > 0
    THEN <<MakePattern(Chars("pattern_") \o base_name \o Chars("_with"),
                       domain_simple \o Chars("s with {") \o range_simple \o <<"}">>,
                       _generate_sparql_template(prop_info.name, domain_simple, range_simple),
                       <<domain_simple \o Chars("s with John Smith"),
                         domain_simple \o Chars("s with Sarah")>>),
           MakePattern(Chars("pattern_") \o base_name \o Chars("_possessive"),
                       <<"{">> \o range_simple \o Chars("}'s ") \o domain_simple \o <<"s">>,
                       _generate_sparql_template(prop_info.name, domain_simple, range_simple),
                       <<Chars("John's ") \o domain_simple \o <<"s">>,
                         Chars("Sarah's ") \o domain_simple \o <<"s">>>>)>>
    ELSE IF prop_info.type = "datatype_property" /\ Len(prop_info.domain) > 0
    THEN <<MakePattern(Chars("pattern_") \o base_name \o Chars("_tagged"),
                       domain_simple \o Chars("s tagged {") \o base_name \o <<"}">>,
                       _generate_sparql_datatype_template(prop_info.name, domain_simple,
                                                          base_name),
                       <<domain_simple \o Chars("s tagged project"),
                         domain_simple \o Chars("s tagged important")>>)>>
    ELSE <<>>

_generate_property_patterns(prop_info) ==
    PropertyPatterns(prop_info, _extract_base_name(prop_info.name),
                     Lower(_simplify_class_name(prop_info.domain)),
                     Lower(_simplify_class_name(prop_info.range)))

\* f"pattern_{n:03d}"
PatternId(n) ==
    Chars("pattern_") \o (IF n < 10 THEN Chars("00") ELSE IF n < 100 THEN Chars("0") ELSE <<>>)
    \o IntToText(n)

\* generate_patterns: the patterns of every property, ids renumbered in order
RECURSIVE generate_from(_, _, _)
RECURSIVE Renumbered(_, _, _, _)
generate_from(properties, i, counter) ==
    IF i > Len(properties) THEN <<>>
    ELSE Renumbered(properties, i, counter, _generate_property_patterns(properties[i]))
\* every generated id starts with pattern_ and is replaced by the running number
Renumbered(properties, i, counter, prop_patterns) ==
    [k \in 1..Len(prop_patterns) |->
        [prop_patterns[k] EXCEPT !.id = PatternId(counter + k - 1)]]
    \o generate_from(properties, i + 1, counter + Len(prop_patterns))

generate_patterns(ontology_data) == generate_from(ontology_data.properties, 1, 0)

\* the ValidationError of the first of the patterns that Pattern(...) refuses,
\* Nothing when it makes them all
InvalidAmong(patterns) ==
    LET failing == {k \in 1..Len(patterns) :
                       Pattern_validate(patterns[k].id, patterns[k].template,
                                        patterns[k].sparql_template, patterns[k].examples,
                                        Rat(85, 100)) # Nothing}
        first == patterns[CHOOSE k \in failing : \A j \in failing : k <= j]
    IN IF failing = {} THEN Nothing
       ELSE Pattern_validate(first.id, first.template, first.sparql_template,
                             first.examples, Rat(85, 100))

\* the ValidationError that stops generate_patterns, at the first property with
\* a pattern that cannot be constructed; Nothing when every pattern is made
RECURSIVE GenerationError(_, _)
RECURSIVE ErrorOrNext(_, _, _)
GenerationError(properties, i) ==
    IF i > Len(properties) THEN Nothing
    ELSE ErrorOrNext(InvalidAmong(_generate_property_patterns(properties[i])), properties, i)
ErrorOrNext(error, properties, i) ==
    IF error # Nothing THEN error ELSE GenerationError(properties, i + 1)

\* _parse_ontology: what rdflib reads from the file
_parse_ontology(file) == [properties |-> file.properties, namespaces |-> file.namespaces]

\* cache_key = f"grammar_{ontology_hash}"
CacheKey(ontology_hash) == Chars("grammar_") \o ontology_hash

\* a cache manager that finds nothing, for comparison
CacheGet_nothing(store, key) == None

\* cache_manager.get(key): the value last put under the key, None when there is none
CacheGet(store, key) ==
    LET held == {i \in 1..Len(store) : store[i].key = key}
    IN IF held = {} THEN None
       ELSE store[CHOOSE i \in held : \A j \in held : i >= j].value

\* a load that stores whatever the construction came to, for comparison
Storing_unvalidated(cache_manager, key, constructed) ==
    IF cache_manager THEN <<[op |-> "put", key |-> key, value |-> constructed.value]>>
    ELSE <<>>

\* if self.cache_manager: put(cache_key, grammar.__dict__), reached only when
\* Grammar(...) has returned
Storing(cache_manager, key, constructed) ==
    IF cache_manager /\ constructed.raised = ""
    THEN <<[op |-> "put", key |-> key, value |-> constructed.value]>>
    ELSE <<>>

\* except Exception: a GrammarError passes, anything else is wrapped in one
AsGrammarError(outcome) ==
    IF outcome.raised \in {"", "GrammarError"} THEN outcome
    ELSE Raised("GrammarError", Chars("Failed to load grammar: ") \o outcome.message)

\* the path of load_grammar after the cache had nothing: parse, generate,
\* construct, store; `calls` are the calls made so far, `error` what stops the
\* generation and `constructed` what Grammar(...) comes to
FreshLoad(file, cache_manager, calls, error, constructed) ==
    IF ~file.parses
    THEN [calls |-> calls \o <<[op |-> "_parse_ontology"]>>,
          outcome |-> AsGrammarError(Raised("Exception", Chars("Bad syntax")))]
    ELSE IF error # Nothing
    THEN [calls |-> calls \o <<[op |-> "_parse_ontology"], [op |-> "generate_patterns"]>>,
          outcome |-> AsGrammarError(Raised("ValidationError", error[1]))]
    ELSE [calls |-> calls \o <<[op |-> "_parse_ontology"], [op |-> "generate_patterns"],
                               [op |-> "Grammar"]>>
                    \o Storing(cache_manager, CacheKey(file.hash), constructed),
          outcome |-> AsGrammarError(constructed)]

\* the path of load_grammar after _calculate_hash: the cache asked, if there is
\* one, and its grammar restored, or else the fresh load
LoadWith(file, cache_manager, now, cached) ==
    IF cache_manager /\ cached # None
    THEN [calls |-> <<[op |-> "_calculate_hash"],
                      [op |-> "get", key |-> CacheKey(file.hash)], [op |-> "Grammar"]>>,
          outcome |-> AsGrammarError(Grammar(cached.patterns, cached.ontology_hash,
                                             cached.namespaces, cached.created_at))]
    ELSE FreshLoad(file, cache_manager,
                   <<[op |-> "_calculate_hash"]>>
                   \o (IF cache_manager THEN <<[op |-> "get", key |-> CacheKey(file.hash)]>>
                       ELSE <<>>),
                   GenerationError(file.properties, 1),
                   Grammar(generate_patterns(_parse_ontology(file)), file.hash,
                           file.namespaces, now))

\* load_grammar: the calls it makes, in order, and the Grammar it returns or the
\* GrammarError it raises
load_grammar(file, cache_manager, store, now) ==
    IF ~file.exists
    THEN [calls |-> <<>>,
          outcome |-> Raised("GrammarError", Chars("Ontology file not found: ") \o file.path)]
    ELSE LoadWith(file, cache_manager, now, CacheGet(store, CacheKey(file.hash)))

\* the store after the put calls among `calls`
RECURSIVE AfterPuts(_, _)
AfterPuts(store, calls) ==
    IF Len(calls) = 0 THEN store
    ELSE AfterPuts(IF Head(calls).op = "put"
                   THEN Append(store, [key |-> Head(calls).key, value |-> Head(calls).value])
                   ELSE store,
                   Tail(calls))

-----------------------------------------------------------------------------
(* The second package (src/kb_query/): AutomaticPatternGenerator,           *)
(* NaturalLanguageQueryParser and KBQueryEngine                             *)

\* AutomaticPatternGenerator._to_plural
_to_plural(word) ==
    IF Len(word) > 0 /\ word[Len(word)] = "y"
    THEN SubSeq(word, 1, Len(word) - 1) \o Chars("ies")
    ELSE IF Len(word) > 0 /\ word[Len(word)] \in {"s", "x"}
    THEN word \o Chars("es")
    ELSE word \o <<"s">>

\* the pattern text, or an example with `value` in the place of {value}
PatternText(class_plural, nl_pattern, value) ==
    IF nl_pattern = Chars("{value}'s")
    THEN value \o Chars("'s ") \o class_plural
    ELSE class_plural \o <<" ">> \o nl_pattern \o <<" ">> \o value

\* AutomaticPatternGenerator._generate_examples
_generate_examples(class_name, nl_pattern, range_type) ==
    LET example_values ==
            IF Contains(range_type, Chars("Person"))
            THEN <<Chars("John Smith"), Chars("Sarah Chen"), Chars("me")>>
            ELSE IF Contains(range_type, Chars("Date"))
            THEN <<Chars("today"), Chars("last week"), Chars("2024-01-01")>>
            ELSE <<Chars("example")>>
    IN [i \in 1..Len(example_values) |->
           PatternText(Lower(_to_plural(class_name)), nl_pattern, example_values[i])]

\* AutomaticPatternGenerator._create_query_pattern: a QueryPattern
_create_query_pattern(domain_class, prop, nl_pattern) ==
    [pattern |-> PatternText(Lower(_to_plural(domain_class.local_name)), nl_pattern,
                             Chars("{value}")),
     sparql_template |-> Chars("\n        ?item a <") \o domain_class.uri
                         \o Chars("> .\n        ?item <") \o prop.uri
                         \o Chars("> ?value .\n        "),
     required_class |-> domain_class.uri,
     required_property |-> prop.uri,
     examples |-> _generate_examples(domain_class.local_name, nl_pattern, prop.range)]

\* AutomaticPatternGenerator._generate_class_patterns, for one class;
\* required_property None is the empty text
ClassPattern(cls) ==
    LET plural == Lower(_to_plural(cls.local_name))
    IN [pattern |-> plural,
        sparql_template |-> Chars("?item a <") \o cls.uri \o <<">">>,
        required_class |-> cls.uri,
        required_property |-> <<>>,
        examples |-> <<plural, Chars("all ") \o plural, Chars("show ") \o plural>>]

\* NaturalLanguageQueryParser._pattern_to_regex
_pattern_to_regex(pattern) ==
    LET escaped == re_escape(pattern)
        braces == Replace(Replace(escaped, <<"\\", "{">>, <<"{">>), <<"\\", "}">>, <<"}">>)
        grouped == Replace(braces, Chars("{value}"), Chars("(?P<value>[\\w\\s]+)"))
        flexible == Replace(grouped, <<" ">>, Chars("\\s+"))
    IN <<"^">> \o flexible \o <<"$">>

\* the regex texts _pattern_to_regex writes, as items: "bol" ^, "eol" $,
\* "value" the named group (?P<value>[\w\s]+), "space" \s, "lit" a literal
\* character (after a backslash or plain); plus when + follows
RECURSIVE ParseQueryRegex(_, _)
ParseQueryRegex(r, i) ==
    IF i > Len(r) THEN <<>>
    ELSE IF StartsAt(r, i, Chars("(?P<value>[\\w\\s]+)"))
         THEN <<[k |-> "value", c |-> "", plus |-> TRUE]>>
              \o ParseQueryRegex(r, i + Len(Chars("(?P<value>[\\w\\s]+)")))
    ELSE IF r[i] = "^" THEN <<[k |-> "bol", c |-> "", plus |-> FALSE]>>
                            \o ParseQueryRegex(r, i + 1)
    ELSE IF r[i] = "$" THEN <<[k |-> "eol", c |-> "", plus |-> FALSE]>>
                            \o ParseQueryRegex(r, i + 1)
    ELSE LET esc == r[i] = "\\" /\ i < Len(r)
             kind == IF esc /\ r[i + 1] = "s" THEN "space" ELSE "lit"
             ch == IF esc THEN r[i + 1] ELSE r[i]
             nxt == IF esc THEN i + 2 ELSE i + 1
             plus == nxt <= Len(r) /\ r[nxt] = "+"
         IN <<[k |-> kind, c |-> ch, plus |-> plus]>>
            \o ParseQueryRegex(r, IF plus THEN nxt + 1 ELSE nxt)

\* the item matches the character
ItemTakes(it, ch) ==
    CASE it.k = "value" -> ch \in WordChars \cup SpaceChars
      [] it.k = "space" -> ch \in SpaceChars
      [] OTHER -> ch = it.c

\* how many characters the item can take from t[pos] on
RECURSIVE ItemRun(_, _, _)
ItemRun(it, t, pos) ==
    IF pos <= Len(t) /\ ItemTakes(it, t[pos]) THEN 1 + ItemRun(it, t, pos + 1) ELSE 0

\* backtracking match of items[idx..] at t[pos..], case-sensitive: a repeated
\* item takes the longest run first; `value` is the text of the named group
RECURSIVE MatchQueryFrom(_, _, _, _)
RECURSIVE TryLongest(_, _, _, _, _)
MatchQueryFrom(items, idx, t, pos) ==
    IF idx > Len(items) THEN [ok |-> TRUE, named |-> FALSE, value |-> <<>>]
    ELSE LET it == items[idx]
             fail == [ok |-> FALSE, named |-> FALSE, value |-> <<>>]
         IN CASE it.k = "bol" ->
                   IF pos = 1 THEN MatchQueryFrom(items, idx + 1, t, pos) ELSE fail
              [] it.k = "eol" ->
                   IF pos = Len(t) + 1 \/ (pos = Len(t) /\ t[pos] = "\n")
                   THEN MatchQueryFrom(items, idx + 1, t, pos) ELSE fail
              [] OTHER ->
                   LET run == ItemRun(it, t, pos)
                   IN IF run = 0 THEN fail
                      ELSE TryLongest(items, idx, t, pos, IF it.plus THEN run ELSE 1)
TryLongest(items, idx, t, pos, n) ==
    IF n = 0 \/ (~items[idx].plus /\ n # 1)
    THEN [ok |-> FALSE, named |-> FALSE, value |-> <<>>]
    ELSE LET rest == MatchQueryFrom(items, idx + 1, t, pos + n)
         IN IF rest.ok
            THEN IF items[idx].k = "value"
                 THEN [ok |-> TRUE, named |-> TRUE, value |-> SubSeq(t, pos, pos + n - 1)]
                 ELSE rest
            ELSE IF items[idx].plus THEN TryLongest(items, idx, t, pos, n - 1)
            ELSE rest

\* NaturalLanguageQueryParser._match_pattern: the first pattern of the list
\* whose regex matches, with match.groupdict(); index 0 when none does
RECURSIVE QueryParser_match_pattern(_, _, _)
QueryParser_match_pattern(query, patterns, i) ==
    IF i > Len(patterns) THEN [index |-> 0, named |-> FALSE, value |-> <<>>]
    ELSE LET m == MatchQueryFrom(ParseQueryRegex(_pattern_to_regex(patterns[i].pattern), 1),
                                 1, query, 1)
         IN IF m.ok THEN [index |-> i, named |-> m.named, value |-> m.value]
            ELSE QueryParser_match_pattern(query, patterns, i + 1)

\* NaturalLanguageQueryParser._extract_entity_type
_extract_entity_type(pattern) ==
    IF Contains(pattern.required_class, <<"#">>)
    THEN LastAfter(pattern.required_class, "#")
    ELSE LastAfter(pattern.required_class, "/")

\* NaturalLanguageQueryParser._extract_filters
_extract_filters(pattern, groups) ==
    IF Len(pattern.required_property) > 0 /\ groups.named
    THEN <<[name |-> LastAfter(pattern.required_property, "#"),
            value |-> Strip(groups.value)]>>
    ELSE <<>>

\* the examples of all patterns, in order
RECURSIVE AllExamples(_, _)
AllExamples(patterns, i) ==
    IF i > Len(patterns) THEN <<>>
    ELSE patterns[i].examples \o AllExamples(patterns, i + 1)

\* sorted by overlap, highest first, equal overlaps in their order
RECURSIVE ByOverlap(_, _)
ByOverlap(scored, k) ==
    IF k = 0 THEN <<>>
    ELSE SelectSeq(scored, LAMBDA s : s.overlap = k) \o ByOverlap(scored, k - 1)

\* NaturalLanguageQueryParser._find_similar_patterns
_find_similar_patterns(query, patterns) ==
    LET query_words == Range(SplitWords(query))
        examples == AllExamples(patterns, 1)
        scored == [i \in 1..Len(examples) |->
                      [overlap |-> Cardinality(query_words
                                               \cap Range(SplitWords(examples[i]))),
                       example |-> examples[i]]]
        sorted == ByOverlap(scored, Cardinality(query_words))
    IN [i \in 1..(IF Len(sorted) < 5 THEN Len(sorted) ELSE 5) |-> sorted[i].example]

\* NaturalLanguageQueryParser.parse: the ParsedQuery (its entity_type and
\* filters; the temporal constraints, limit and ordering read from the query
\* text are left out), or the QueryParseError raised with its suggestions
parse(query, patterns) ==
    LET q == Lower(Strip(query))
        matched == QueryParser_match_pattern(q, patterns, 1)
    IN IF matched.index = 0
       THEN [raised |-> "QueryParseError",
             message |-> Chars("Could not parse query: '") \o q \o <<"'">>,
             suggestions |-> _find_similar_patterns(q, patterns),
             value |-> None]
       ELSE Constructed([entity_type |-> _extract_entity_type(patterns[matched.index]),
                         filters |-> _extract_filters(patterns[matched.index], matched)])

\* KBQueryEngine.query: the exception is logged and raised again; of the
\* result dict, the part made from the ParsedQuery
KBQueryEngine_query(natural_language_query, patterns) ==
    LET parsed == parse(natural_language_query, patterns)
    IN IF parsed.raised # "" THEN parsed
       ELSE Constructed([parsed |-> [entity_type |-> parsed.value.entity_type,
                                     filters |-> parsed.value.filters]])

-----------------------------------------------------------------------------
(* The services and requests of the model                                   *)

\* an ontology with one object property and one datatype property on kb:Doc
OntologyData ==
    [properties |->
        <<[name |-> Chars("kb:hasAuthor"), type |-> "object_property",
           domain |-> Chars("kb:Doc"), range |-> Chars("foaf:Person")],
          [name |-> Chars("kb:tag"), type |-> "datatype_property",
           domain |-> Chars("kb:Doc"), range |-> Chars("xsd:string")]>>]

\* the grammar load_grammar generates for OntologyData:
\* docs with {person}, {person}'s docs, docs tagged {tag}
GeneratedGrammar == generate_patterns(OntologyData)

\* a grammar restored from the cache, written by hand as the fixtures of
\* tests/unit/test_pattern_matcher.py are: one template with two placeholders
CachedGrammar ==
    <<MakePattern(Chars("test_001"), Chars("{person}'s docs"),
                  Chars("SELECT ?doc WHERE { ?doc kb:hasAuthor \"{person}\" }"),
                  <<Chars("John's docs")>>),
      MakePattern(Chars("test_002"), Chars("docs with {person}"),
                  Chars("SELECT ?doc WHERE { ?doc kb:hasAuthor \"{person}\" }"),
                  <<Chars("docs with John Smith")>>),
      MakePattern(Chars("test_003"), Chars("{tag} docs with {person}"),
                  Chars("SELECT ?doc WHERE { ?doc kb:hasAuthor \"{person}\" ; kb:tag \"{tag}\" }"),
                  <<Chars("draft docs with John Smith")>>)>>

Grammars == {GeneratedGrammar, CachedGrammar}

\* QueryService(namespaces=...)
Namespaces == <<[prefix |-> Chars("kb"), uri |-> Chars("http://example.org/kb#")]>>

\* PatternMatcher(similarity_threshold=0.7)
DefaultThreshold == Rat(7, 10)

\* how many entity fragments follow the head of an input
MaxTail == 2

\* the start of an input: a template's literal words, as typed or mistyped,
\* or a possessive written without its apostrophe
Heads == {Chars("docs with "), Chars(" docs with "), Chars("doc with "),
          Chars("DOCS With "), Chars("x docs with "), Chars("x docs with y docs with "),
          Chars("docs tagged "), Chars("doc tagged"), Chars("Als docs"),
          Chars("dosc with "), Chars("dosc wiht "), <<>>}

\* the fragments of the rest of an input
TailFragments == {Chars("Al"), Chars(" "), Chars("(b"), Chars("'s docs")}

RECURSIVE Tails(_)
Tails(n) == IF n = 0 THEN {<<>>}
            ELSE Tails(n - 1) \cup {t \o f : t \in Tails(n - 1), f \in TailFragments}

\* QueryRequest.__post_init__: the input text is not blank
InputTexts == {t \in {h \o t : h \in Heads, t \in Tails(MaxTail)} : Len(Strip(t)) > 0}

GraphA == Chars("http://g/a")
GraphB == Chars("http://g/b")

\* (named_graphs, default_graph) of a request; <<>> stands for None
GraphChoices == {[named |-> <<>>, default |-> <<>>],
                 [named |-> <<>>, default |-> GraphA],
                 [named |-> <<GraphA, GraphB>>, default |-> <<>>]}

\* request.limit: 0 stands for None, else a positive integer
Limits == {0, 20}

QueryRequest(input_text, debug, show_sparql, limit, graphs) ==
    [input_text |-> input_text, debug |-> debug, show_sparql |-> show_sparql,
     limit |-> limit, named_graphs |-> graphs.named, default_graph |-> graphs.default]

-----------------------------------------------------------------------------
(* The state machine                                                        *)

Init ==
    /\ grammar \in Grammars
    /\ threshold = DefaultThreshold
    /\ namespaces = Namespaces
    /\ pc = "Ready"
    /\ request = None
    /\ input = Nothing
    /\ matches = <<>>
    /\ best_match = None
    /\ built = None
    /\ extracted = None
    /\ response = None
    /\ call = None
    /\ made = None
    /\ cache = <<>>
    /\ tasks = <<>>

\* QueryService.process_query, from the call to the returned QueryResponse
ProcessQuery ==
    /\ pc = "Ready"
    /\ \E text \in InputTexts :
          \E found \in {find_matches(threshold, text, grammar)} :
             \E graphs \in GraphChoices :
                \E b \in {IF Len(found) = 0 THEN None
                          ELSE build_query(namespaces, found[1], graphs.named, graphs.default)} :
                   \E debug \in BOOLEAN, show_sparql \in BOOLEAN, limit \in Limits :
                      \E req \in {QueryRequest(text, debug, show_sparql, limit, graphs)} :
                         /\ request' = req
                         /\ input' = text
                         /\ matches' = found
                         /\ best_match' = IF Len(found) = 0 THEN None ELSE found[1]
                         /\ built' = b
                         /\ response' = IF Len(found) = 0 THEN NoMatchResponse(req, grammar)
                                        ELSE BuiltResponse(req, found[1], b)
    /\ pc' = "Responded"
    /\ UNCHANGED <<grammar, threshold, namespaces, extracted, call, made, cache,
                   tasks>>

\* PatternMatcher.find_matches called on its own
FindMatches ==
    /\ pc = "Ready"
    /\ \E text \in InputTexts :
          /\ input' = text
          /\ matches' = find_matches(threshold, text, grammar)
    /\ pc' = "Matched"
    /\ UNCHANGED <<grammar, threshold, namespaces, request, best_match, built, extracted,
                   response, call, made, cache,
                   tasks>>

\* PatternMatcher.extract_entities called on its own
ExtractEntities ==
    /\ pc = "Ready"
    /\ \E text \in InputTexts, i \in 1..Len(grammar) :
          /\ input' = text
          /\ extracted' = [pattern |-> grammar[i],
                           entities |-> extract_entities(text, grammar[i])]
    /\ pc' = "Extracted"
    /\ UNCHANGED <<grammar, threshold, namespaces, request, matches, best_match, built,
                   response, call, made, cache,
                   tasks>>

\* SPARQLBuilder.build_query called on any result of find_matches
BuildQuery ==
    /\ pc = "Matched"
    /\ \E i \in 1..Len(matches), graphs \in GraphChoices :
          /\ best_match' = matches[i]
          /\ built' = build_query(namespaces, matches[i], graphs.named, graphs.default)
    /\ pc' = "Built"
    /\ UNCHANGED <<grammar, threshold, namespaces, request, input, matches, extracted,
                   response, call, made, cache,
                   tasks>>

\* the caller takes the result; the locals of the call are gone
Return ==
    /\ pc \in {"Responded", "Matched", "Extracted", "Built"}
    /\ pc' = "Ready"
    /\ request' = None
    /\ input' = Nothing
    /\ matches' = <<>>
    /\ best_match' = None
    /\ built' = None
    /\ extracted' = None
    /\ response' = None
    /\ UNCHANGED <<grammar, threshold, namespaces, call, made, cache,
                   tasks>>

\* the service: one process_query after another
Next == ProcessQuery \/ Return

Spec == Init /\ [][Next]_vars

\* the matcher and the builder called directly, one call after another
NextComponents == FindMatches \/ ExtractEntities \/ BuildQuery \/ Return

SpecComponents == Init /\ [][NextComponents]_vars

-----------------------------------------------------------------------------
(* Constructors and functions called on their own                           *)

\* the arguments Pattern(...) is called with
PatternIds == {<<>>, Chars("p1"), Chars(" ")}
PatternTemplates == {Chars("docs with {person}"), Chars("{a} by {b}"), Chars("docs"),
                     Chars("docs {}"), Chars("docs {x"), <<>>}
PatternSparqlTemplates == {Chars("SELECT ?d WHERE { ?d kb:by \"{person}\" }"),
                           Chars(" \t"), <<>>}
PatternExamples == {<<Chars("docs with Al")>>, <<>>}
Confidences == {[num |-> -1, den |-> 10], RatZero, Rat(85, 100), RatOne,
                [num |-> 11, den |-> 10]}

\* Pattern(...) called: the dataclass constructor runs __post_init__
ConstructPattern ==
    /\ pc = "Ready"
    /\ \E id \in PatternIds, template \in PatternTemplates,
          sparql_template \in PatternSparqlTemplates, examples \in PatternExamples,
          confidence \in Confidences :
          /\ call' = [op |-> "Pattern", id |-> id, template |-> template,
                      sparql_template |-> sparql_template, examples |-> examples,
                      confidence |-> confidence]
          /\ made' = Pattern(id, template, sparql_template, examples, confidence)
    /\ pc' = "Constructed"
    /\ UNCHANGED <<grammar, threshold, namespaces, request, input, matches, best_match,
                   built, extracted, response, cache,
                   tasks>>

\* the hash of the ontology file's text: 12 hexadecimal digits
OntologyHash == Chars("0123456789ab")

\* Grammar.created_at: datetime.now().isoformat() at construction
CreatedAt == Chars("2024-01-01T00:00:00")

\* one pattern under the id of another
WithId(pattern, id) == [pattern EXCEPT !.id = id]

\* the arguments Grammar(...) is called with
ListsOf(generated, cached) ==
    {<<>>, generated, cached, <<cached[1]>>, <<cached[1], cached[1]>>,
     <<cached[1], WithId(cached[2], cached[1].id)>>, <<cached[1], cached[2], cached[1]>>}
PatternLists == ListsOf(GeneratedGrammar, CachedGrammar)
OntologyHashes == {<<>>, OntologyHash}

\* Grammar(...) called: the dataclass constructor runs __post_init__
ConstructGrammar ==
    /\ pc = "Ready"
    /\ \E patterns \in PatternLists, ontology_hash \in OntologyHashes :
          /\ call' = [op |-> "Grammar", patterns |-> patterns,
                      ontology_hash |-> ontology_hash]
          /\ made' = Grammar(patterns, ontology_hash, namespaces, CreatedAt)
    /\ pc' = "Constructed"
    /\ UNCHANGED <<grammar, threshold, namespaces, request, input, matches, best_match,
                   built, extracted, response, cache,
                   tasks>>

\* the query texts add_limit is called with: a body and what follows it
LimitBodies == {Chars("SELECT ?d WHERE { ?d a kb:Doc }"), Chars("ASK { ?d a kb:Doc } "),
                Chars("SELECT ?d"), <<>>}
LimitEndings == {<<>>, Chars("\nLIMIT 5"), Chars(" limit 5 \n"), Chars("\tLimit  07"),
                 Chars(" LIMIT 5 LIMIT 7"), Chars(" LIMIT"), Chars(" LIMIT 5 ?x"),
                 Chars(" LIMIT 5 }"), Chars("LIMIT 5")}
LimitValues == {1, 10, 20}

\* add_limit called on a text, and again on its result with another limit
AddLimit ==
    /\ pc = "Ready"
    /\ \E body \in LimitBodies, ending \in LimitEndings, a \in LimitValues, b \in LimitValues :
          /\ call' = [op |-> "add_limit", sparql |-> body \o ending, first |-> a,
                      second |-> b]
          /\ made' = [once |-> add_limit(body \o ending, a),
                      twice |-> add_limit(add_limit(body \o ending, a), b),
                      direct |-> add_limit(body \o ending, b)]
    /\ pc' = "Limited"
    /\ UNCHANGED <<grammar, threshold, namespaces, request, input, matches, best_match,
                   built, extracted, response, cache,
                   tasks>>

GraphC == Chars("http://g/c")

\* (named_graphs, default_graph) given to build_query directly
WrapChoices == GraphChoices \cup
               {[named |-> <<GraphB>>, default |-> <<>>],
                [named |-> <<GraphB>>, default |-> GraphA],
                [named |-> <<GraphC, GraphB>>, default |-> GraphA],
                [named |-> <<GraphB, GraphA, GraphC>>, default |-> <<>>]}

\* build_query called on a result of find_matches with graphs, and without
BuildInGraphs ==
    /\ pc = "Ready"
    /\ \E text \in InputTexts :
          \E found \in {find_matches(threshold, text, grammar)} :
             \E i \in 1..Len(found), graphs \in WrapChoices :
                /\ call' = [op |-> "build_query", match_result |-> found[i],
                            named_graphs |-> graphs.named,
                            default_graph |-> graphs.default]
                /\ made' = [plain |-> build_query(namespaces, found[i], <<>>, <<>>),
                            wrapped |-> build_query(namespaces, found[i], graphs.named,
                                                    graphs.default)]
    /\ pc' = "Wrapped"
    /\ UNCHANGED <<grammar, threshold, namespaces, request, input, matches, best_match,
                   built, extracted, response, cache,
                   tasks>>

\* the query texts optimize_query is called with: the SPARQL templates of the
\* generated grammar as they are and with the PREFIX lines of the builder,
\* and texts with the FILTER first, with OPTIONAL, LIMIT and a blank line,
\* of one line, with no FILTER and with no triple pattern
OptimizeTexts ==
    {GeneratedGrammar[i].sparql_template : i \in 1..Len(GeneratedGrammar)}
    \cup {_add_namespaces(Namespaces, GeneratedGrammar[i].sparql_template) :
             i \in 1..Len(GeneratedGrammar)}
    \cup {Chars("SELECT ?d\nWHERE {\n  FILTER(?n > 1)\n  ?d kb:n ?n .\n}"),
          Chars("SELECT ?d\nWHERE {\n  ?d kb:n ?n .\n  OPTIONAL { ?d kb:m ?m }\n  FILTER(?n > 1)\n}\nLIMIT 5"),
          Chars("SELECT ?d\nWHERE {\n\n  ?d kb:n ?n .\n  FILTER(?n > 1)\n}"),
          Chars("SELECT ?d WHERE { ?d kb:n ?n . FILTER(?n > 1) }"),
          Chars("SELECT ?d\nWHERE {\n  ?d kb:n ?n .\n}"),
          Chars("ASK\nWHERE {\n  FILTER(1 > 0)\n}"),
          Chars("?d kb:n ?n .\nFILTER(?n > 1)")}

\* SPARQLBuilder.optimize_query(sparql)
OptimizeQuery ==
    /\ pc = "Ready"
    /\ \E sparql \in OptimizeTexts :
          /\ call' = [op |-> "optimize_query", sparql |-> sparql]
          /\ made' = Constructed(optimize_query(sparql))
    /\ pc' = "Optimized"
    /\ UNCHANGED <<grammar, threshold, namespaces, request, input, matches, best_match,
                   built, extracted, response, cache, tasks>>

\* how long the values given to _escape_sparql_string are
MaxValueLen == 3

\* the characters of the values: the five that are escaped, and two that are not
ValueChars == {"\\", "\"", "\n", "\r", "\t", "n", "a"}

RECURSIVE ValuesUpTo(_)
ValuesUpTo(n) == IF n = 0 THEN {<<>>}
                 ELSE ValuesUpTo(n - 1)
                      \cup {Append(v, c) : v \in ValuesUpTo(n - 1), c \in ValueChars}

EscapeValues == ValuesUpTo(MaxValueLen)

\* SPARQLBuilder._escape_sparql_string(value)
EscapeString ==
    /\ pc = "Ready"
    /\ \E value \in EscapeValues :
          /\ call' = [op |-> "_escape_sparql_string", value |-> value]
          /\ made' = Constructed(_escape_sparql_string(value))
    /\ pc' = "Escaped"
    /\ UNCHANGED <<grammar, threshold, namespaces, request, input, matches, best_match,
                   built, extracted, response, cache, tasks>>

\* the Patterns of the MatchResults given to build_query directly: a generated
\* one, one with two placeholders, one whose SPARQL template declares a prefix
\* of its own, and an ASK form, which has no WHERE keyword
DirectPatterns ==
    {GeneratedGrammar[1],
     CachedGrammar[3],
     MakePattern(Chars("direct_001"), Chars("docs made by {person}"),
                 Chars("PREFIX foaf: <http://xmlns.com/foaf/0.1/>\nSELECT ?d WHERE { ?d foaf:maker \"{person}\" ; kb:tag \"x\" }"),
                 <<Chars("docs made by Al")>>),
     MakePattern(Chars("direct_002"), Chars("any docs with {person}"),
                 Chars("ASK { ?d kb:hasAuthor \"{person}\" }"),
                 <<Chars("any docs with Al")>>)}

\* the entity values: a name, the word prefix, the text of a placeholder, and
\* a value with a double quote
DirectValues == {Chars("Al"), Chars("prefix"), Chars("{person}"), Chars("a\"b")}

\* the dicts with a value for each name, the names in the given order
RECURSIVE EntityDicts(_)
EntityDicts(names) ==
    IF Len(names) = 0 THEN {<<>>}
    ELSE {<<[name |-> names[1], value |-> v]>> \o rest :
             v \in DirectValues, rest \in EntityDicts(Tail(names))}

\* MatchResult.entities for a pattern: its placeholders in either order
DirectEntities(pattern) ==
    LET names == FindPlaceholders(pattern.template, 1)
    IN EntityDicts(names)
       \cup EntityDicts([i \in 1..Len(names) |-> names[Len(names) + 1 - i]])

\* SPARQLBuilder.build_query called with a MatchResult made by the caller
BuildDirect ==
    /\ pc = "Ready"
    /\ \E pattern \in DirectPatterns, graphs \in GraphChoices :
          \E entities \in DirectEntities(pattern) :
             \E match_result \in {[pattern |-> pattern, confidence |-> RatOne,
                                   entities |-> entities, match_type |-> "exact"]} :
                /\ call' = [op |-> "build_query", match_result |-> match_result,
                            named_graphs |-> graphs.named,
                            default_graph |-> graphs.default]
                /\ made' = build_query(namespaces, match_result, graphs.named,
                                       graphs.default)
    /\ pc' = "BuiltDirect"
    /\ UNCHANGED <<grammar, threshold, namespaces, request, input, matches, best_match,
                   built, extracted, response, cache, tasks>>

\* the input texts given to suggest_corrections: words of the templates alone
\* and together, a placeholder name, a misspelt word, and words of no template
SuggestTexts == {Chars("docs"), Chars("DOCS tagged"), Chars("tagged"), Chars("with"),
                 Chars("dosc with person"), Chars("person's"), Chars("tag docs"),
                 Chars("Al"), Chars("meetings, 2024"), <<>>}

\* PatternMatcher.suggest_corrections(input_text, grammar)
SuggestCorrections ==
    /\ pc = "Ready"
    /\ \E input_text \in SuggestTexts :
          /\ call' = [op |-> "suggest_corrections", input_text |-> input_text]
          /\ made' = Constructed(suggest_corrections(input_text, grammar))
    /\ pc' = "Suggested"
    /\ UNCHANGED <<grammar, threshold, namespaces, request, input, matches, best_match,
                   built, extracted, response, cache, tasks>>

\* the ontology of the engine: the classes Meeting and Task, the property
\* hasAttendee of Meeting with range foaf:Person and hasTag of Task
MeetingClass ==
    [uri |-> Chars("http://example.org/kb#Meeting"), local_name |-> Chars("Meeting")]
TaskClass ==
    [uri |-> Chars("http://example.org/kb#Task"), local_name |-> Chars("Task")]
HasAttendee ==
    [uri |-> Chars("http://example.org/kb#hasAttendee"),
     range |-> Chars("http://xmlns.com/foaf/0.1/Person")]
HasTag ==
    [uri |-> Chars("http://example.org/kb#hasTag"),
     range |-> Chars("http://www.w3.org/2001/XMLSchema#string")]

\* what _infer_property_patterns gives for hasAttendee and for hasTag: the
\* special predicates, "has" with the noun, and the possessive for a Person
AttendeePhrases ==
    <<Chars("with"), Chars("attended by"), Chars("including"),
      Chars("with participant"), Chars("with attendee"), Chars("having attendee"),
      Chars("that has attendee"), Chars("{value}'s")>>
TagPhrases ==
    <<Chars("tagged"), Chars("tagged with"), Chars("under"), Chars("categorized as"),
      Chars("with tag"), Chars("having tag"), Chars("that has tag")>>

\* AutomaticPatternGenerator.generate_patterns: the patterns of the
\* properties, then those of the classes
QueryPatternsOf(domain_class, prop, nl_patterns) ==
    [i \in 1..Len(nl_patterns) |-> _create_query_pattern(domain_class, prop, nl_patterns[i])]
MeetingPatterns ==
    QueryPatternsOf(MeetingClass, HasAttendee, AttendeePhrases)
    \o <<ClassPattern(MeetingClass)>>
TaskPatterns ==
    QueryPatternsOf(TaskClass, HasTag, TagPhrases) \o <<ClassPattern(TaskClass)>>
EnginePatterns == {MeetingPatterns, TaskPatterns}

\* the queries given to the parser and to the engine: a beginning and an end
QueryHeads ==
    {Chars("meetings with "), Chars("Meetings attended by "), Chars("meetings\\swith\\s"),
     Chars("tasks tagged "), Chars("tasks\\stagged\\swith\\s"), Chars(" meetings"),
     Chars("xyz "), <<>>}
QueryTails ==
    {Chars("john smith"), Chars("John"), Chars("al_2 "), Chars("a-b"), Chars("me"),
     Chars("tasks"), Chars("john's meetings"), <<>>}
QueryTexts == {h \o t : h \in QueryHeads, t \in QueryTails}

\* NaturalLanguageQueryParser.parse called on its own
ParseQuery ==
    /\ pc = "Ready"
    /\ \E query \in QueryTexts, patterns \in EnginePatterns :
          /\ call' = [op |-> "parse", query |-> query, patterns |-> patterns]
          /\ made' = parse(query, patterns)
    /\ pc' = "Parsed"
    /\ UNCHANGED <<grammar, threshold, namespaces, request, input, matches, best_match,
                   built, extracted, response, cache, tasks>>

\* KBQueryEngine.query on an engine with the patterns generated at its
\* construction
EngineQuery ==
    /\ pc = "Ready"
    /\ \E natural_language_query \in QueryTexts, patterns \in EnginePatterns :
          /\ call' = [op |-> "query", query |-> natural_language_query,
                      patterns |-> patterns]
          /\ made' = KBQueryEngine_query(natural_language_query, patterns)
    /\ pc' = "Queried"
    /\ UNCHANGED <<grammar, threshold, namespaces, request, input, matches, best_match,
                   built, extracted, response, cache, tasks>>

\* the caller takes what the call made, or handles what it raised
ReturnCall ==
    /\ pc \in {"Constructed", "Limited", "Wrapped", "Optimized", "Escaped",
              "BuiltDirect", "Suggested", "Parsed", "Queried"}
    /\ pc' = "Ready"
    /\ call' = None
    /\ made' = None
    /\ UNCHANGED <<grammar, threshold, namespaces, request, input, matches, best_match,
                   built, extracted, response, cache,
                   tasks>>

NextCalls == ConstructPattern \/ ConstructGrammar \/ AddLimit \/ BuildInGraphs \/ ReturnCall

SpecCalls == Init /\ [][NextCalls]_vars

\* the functions of the builder and the matcher that work on texts alone
NextTexts ==
    OptimizeQuery \/ EscapeString \/ BuildDirect \/ SuggestCorrections \/ ReturnCall

SpecTexts == Init /\ [][NextTexts]_vars

\* the parser and the engine of the second package
NextEngine == ParseQuery \/ EngineQuery \/ ReturnCall

SpecEngine == Init /\ [][NextEngine]_vars

-----------------------------------------------------------------------------
(* The life of a service, from its construction on                          *)

\* the ontology files a service is given, each with what rdflib reads from it:
\* a good one, one that is not there, one that is not Turtle, one whose only
\* property has no domain, and one whose range class has no local name
OntologyFile ==
    [path |-> Chars("kb.ttl"), exists |-> TRUE, parses |-> TRUE, hash |-> OntologyHash,
     properties |-> OntologyData.properties, namespaces |-> Namespaces]
MissingFile == [OntologyFile EXCEPT !.path = Chars("gone.ttl"), !.exists = FALSE]
BrokenFile == [OntologyFile EXCEPT !.path = Chars("bad.ttl"), !.parses = FALSE,
                                   !.hash = Chars("bad0bad0bad0")]
EmptyFile ==
    [OntologyFile EXCEPT !.path = Chars("empty.ttl"), !.hash = Chars("e0e0e0e0e0e0"),
        !.properties = <<[name |-> Chars("kb:hasAuthor"), type |-> "object_property",
                          domain |-> <<>>, range |-> Chars("foaf:Person")]>>]
OddFile ==
    [OntologyFile EXCEPT !.path = Chars("odd.ttl"), !.hash = Chars("0dd00dd00dd0"),
        !.properties = <<[name |-> Chars("kb:hasAuthor"), type |-> "object_property",
                          domain |-> Chars("kb:Doc"),
                          range |-> Chars("http://x.org/people#")]>>]
OntologyFiles == {OntologyFile, MissingFile, BrokenFile, EmptyFile, OddFile}

\* datetime.now().isoformat() at a later load
LaterTime == Chars("2024-06-01T00:00:00")
Times == {CreatedAt, LaterTime}

\* what an earlier run has left in the cache for the good file: the
\* hand-written grammar
StoredGrammar ==
    [patterns |-> CachedGrammar, ontology_hash |-> OntologyHash, namespaces |-> Namespaces,
     created_at |-> Chars("2023-01-01T00:00:00")]

InitService ==
    /\ grammar = <<>>
    /\ threshold = DefaultThreshold
    /\ namespaces = Namespaces
    /\ pc = "Uninitialized"
    /\ request = None
    /\ input = Nothing
    /\ matches = <<>>
    /\ best_match = None
    /\ built = None
    /\ extracted = None
    /\ response = None
    /\ call = None
    /\ made = None
    /\ cache \in {<<>>, <<[key |-> CacheKey(OntologyHash), value |-> StoredGrammar]>>}
    /\ tasks = <<>>

\* QueryService._load_grammar: any exception becomes a KBQueryException
ServiceOutcome(loaded) ==
    IF loaded.raised = "" THEN loaded
    ELSE Raised("KBQueryException", Chars("Failed to load grammar: ") \o loaded.message)

\* QueryService(ontology_path, cache_manager=...): __init__ with its load_grammar
ConstructService ==
    /\ pc = "Uninitialized"
    /\ \E file \in OntologyFiles, cache_manager \in BOOLEAN, now \in Times :
          \E loading \in {load_grammar(file, cache_manager, cache, now)} :
             /\ call' = [op |-> "QueryService", ontology |-> file,
                         cache_manager |-> cache_manager, now |-> now]
             /\ made' = [calls |-> loading.calls, loaded |-> loading.outcome,
                         outcome |-> ServiceOutcome(loading.outcome)]
             /\ cache' = AfterPuts(cache, loading.calls)
             /\ grammar' = IF loading.outcome.raised = ""
                           THEN loading.outcome.value.patterns ELSE grammar
             /\ pc' = IF loading.outcome.raised = "" THEN "Initialized" ELSE "Failed"
    /\ UNCHANGED <<threshold, namespaces, request, input, matches, best_match, built,
                   extracted, response, tasks>>

\* the caller holds the service it constructed
ReturnService ==
    /\ pc = "Initialized"
    /\ pc' = "Ready"
    /\ call' = None
    /\ made' = None
    /\ UNCHANGED <<grammar, threshold, namespaces, request, input, matches, best_match,
                   built, extracted, response, cache,
                   tasks>>

\* the run ends and its service with it; the cache manager's store stays for
\* the next run
EndRun ==
    /\ pc = "Ready"
    /\ pc' = "Uninitialized"
    /\ grammar' = <<>>
    /\ UNCHANGED <<threshold, namespaces, request, input, matches, best_match, built,
                   extracted, response, call, made, cache,
                   tasks>>

NextService == ConstructService \/ ReturnService \/ ProcessQuery \/ Return \/ EndRun

SpecService == InitService /\ [][NextService]_vars

-----------------------------------------------------------------------------
(* Invocations of process_query in progress on one service                  *)
(* (kb_query/services/query.py): each has its own locals; the statements of *)
(* two invocations are taken in any order                                   *)

\* how many invocations are in progress at once
MaxTasks == 2

TaskIds == 1..MaxTasks

\* an exact match, a value the builder rejects, a misspelt word, no match
TaskTexts == {Chars("docs with Al"), Chars("docs with (b"), Chars("dosc with Al"),
              Chars("Al")}

\* (debug, show_sparql, limit, graphs) of the requests
TaskOptions == {[debug |-> TRUE, show_sparql |-> FALSE, limit |-> 0,
                 graphs |-> [named |-> <<>>, default |-> <<>>]],
                [debug |-> FALSE, show_sparql |-> TRUE, limit |-> 20,
                 graphs |-> [named |-> <<GraphA, GraphB>>, default |-> <<>>]],
                [debug |-> TRUE, show_sparql |-> TRUE, limit |-> 20,
                 graphs |-> [named |-> <<>>, default |-> <<>>]]}

\* the QueryRequests given to the invocations
TaskRequests ==
    {QueryRequest(text, o.debug, o.show_sparql, o.limit, o.graphs) :
        text \in TaskTexts, o \in TaskOptions}

\* no invocation: nothing of an earlier call is kept
IdleTask == [pc |-> "idle", request |-> None, matches |-> <<>>, best_match |-> None,
             sparql_query |-> None, response |-> None]

InitTasks ==
    /\ grammar \in Grammars
    /\ threshold = DefaultThreshold
    /\ namespaces = Namespaces
    /\ pc = "Ready"
    /\ request = None
    /\ input = Nothing
    /\ matches = <<>>
    /\ best_match = None
    /\ built = None
    /\ extracted = None
    /\ response = None
    /\ call = None
    /\ made = None
    /\ cache = <<>>
    /\ tasks = [t \in TaskIds |-> IdleTask]

\* what no statement of process_query assigns: the fields of the service, of the
\* matcher and of the builder, and the variables of the other models
TaskFrame ==
    UNCHANGED <<grammar, threshold, namespaces, pc, request, input, matches, best_match,
                built, extracted, response, call, made, cache>>

\* process_query(request) is called
TaskCall(t) ==
    /\ tasks[t].pc = "idle"
    /\ \E req \in TaskRequests :
          tasks' = [tasks EXCEPT ![t] = [IdleTask EXCEPT !.pc = "called", !.request = req]]
    /\ TaskFrame

\* matches = self.pattern_matcher.find_matches(request.input_text, self.grammar)
TaskFindMatches(t) ==
    /\ tasks[t].pc = "called"
    /\ tasks' = [tasks EXCEPT
                    ![t].matches = find_matches(threshold, tasks[t].request.input_text, grammar),
                    ![t].pc = "matched"]
    /\ TaskFrame

\* if not matches: the failure response with suggest_corrections
TaskSuggest(t) ==
    /\ tasks[t].pc = "matched"
    /\ Len(tasks[t].matches) = 0
    /\ tasks' = [tasks EXCEPT ![t].response = NoMatchResponse(tasks[t].request, grammar),
                              ![t].pc = "returned"]
    /\ TaskFrame

\* the finished text also assigned to the sparql_template of the matched Pattern
TaskBuildQuery_writing_template(t) ==
    /\ tasks[t].pc = "matched"
    /\ Len(tasks[t].matches) > 0
    /\ \E b \in {build_query(namespaces, tasks[t].matches[1],
                             tasks[t].request.named_graphs, tasks[t].request.default_graph)} :
          /\ tasks' = [tasks EXCEPT
                          ![t].best_match = tasks[t].matches[1],
                          ![t].sparql_query = b,
                          ![t].response = IF b.ok THEN None
                                          ELSE BuiltResponse(tasks[t].request,
                                                             tasks[t].matches[1], b),
                          ![t].pc = IF b.ok THEN "built" ELSE "returned"]
          /\ grammar' = [i \in 1..Len(grammar) |->
                            IF grammar[i] = tasks[t].matches[1].pattern /\ b.ok
                            THEN [grammar[i] EXCEPT !.sparql_template = b.query_text]
                            ELSE grammar[i]]
    /\ UNCHANGED <<threshold, namespaces, pc, request, input, matches, best_match,
                   built, extracted, response, call, made, cache>>

\* best_match = matches[0]; sparql_query = self.sparql_builder.build_query(...);
\* a SPARQLError is caught and becomes the failure response
TaskBuildQuery(t) ==
    /\ tasks[t].pc = "matched"
    /\ Len(tasks[t].matches) > 0
    /\ \E b \in {build_query(namespaces, tasks[t].matches[1],
                             tasks[t].request.named_graphs, tasks[t].request.default_graph)} :
          tasks' = [tasks EXCEPT
                       ![t].best_match = tasks[t].matches[1],
                       ![t].sparql_query = b,
                       ![t].response = IF b.ok THEN None
                                       ELSE BuiltResponse(tasks[t].request,
                                                          tasks[t].matches[1], b),
                       ![t].pc = IF b.ok THEN "built" ELSE "returned"]
    /\ TaskFrame

\* the limit written to the SPARQLQuery of every invocation that has one
TaskAddLimit_on_every_query(t) ==
    /\ tasks[t].pc = "built"
    /\ tasks' = [u \in TaskIds |->
                    IF u = t \/ tasks[u].pc \in {"built", "limited"}
                    THEN [tasks[u] EXCEPT
                             !.sparql_query.query_text =
                                 IF tasks[t].request.limit # 0
                                 THEN add_limit(@, tasks[t].request.limit) ELSE @,
                             !.pc = IF u = t THEN "limited" ELSE @]
                    ELSE tasks[u]]
    /\ TaskFrame

\* if request.limit: sparql_query.query_text = self.sparql_builder.add_limit(...)
TaskAddLimit(t) ==
    /\ tasks[t].pc = "built"
    /\ tasks' = [tasks EXCEPT
                    ![t].sparql_query.query_text =
                        IF tasks[t].request.limit # 0
                        THEN add_limit(@, tasks[t].request.limit) ELSE @,
                    ![t].pc = "limited"]
    /\ TaskFrame

\* debug_info and the QueryResponse of a success
SuccessResponse(req, best, sparql_query) ==
    QueryResponse(TRUE,
                  IF req.show_sparql \/ req.debug THEN Some(sparql_query.query_text)
                  ELSE Nothing,
                  Nothing, Nothing,
                  IF req.debug
                  THEN [matched_pattern |-> best.pattern.template,
                        confidence |-> best.confidence,
                        match_type |-> best.match_type,
                        extracted_entities |-> best.entities,
                        pattern_id |-> best.pattern.id,
                        sparql_complexity |-> sparql_query.estimated_complexity]
                  ELSE None)

\* return QueryResponse(success=True, ...)
TaskRespond(t) ==
    /\ tasks[t].pc = "limited"
    /\ tasks' = [tasks EXCEPT
                    ![t].response = SuccessResponse(tasks[t].request, tasks[t].best_match,
                                                    tasks[t].sparql_query),
                    ![t].pc = "returned"]
    /\ TaskFrame

\* the caller takes the response; the locals of the invocation are gone
TaskReturn(t) ==
    /\ tasks[t].pc = "returned"
    /\ tasks' = [tasks EXCEPT ![t] = IdleTask]
    /\ TaskFrame

TaskStep(t) ==
    \/ TaskCall(t)
    \/ TaskFindMatches(t)
    \/ TaskSuggest(t)
    \/ TaskBuildQuery(t)
    \/ TaskAddLimit(t)
    \/ TaskRespond(t)
    \/ TaskReturn(t)

\* the statements of the invocations, interleaved in any way
NextTasks == \E t \in TaskIds : TaskStep(t)

SpecTasks == InitTasks /\ [][NextTasks]_vars

-----------------------------------------------------------------------------
(* Properties of the builder (SpecComponents)                               *)

\* the number of positions of text holding ch
Occurrences(text, ch) == Cardinality({i \in 1..Len(text) : text[i] = ch})

\* word (in capitals) occurs in text, letter case ignored
MentionsWord(text, word) ==
    \E i \in 1..(Len(text) - Len(word) + 1) :
       \A k \in 1..Len(word) : UpperChar(text[i + k - 1]) = word[k]

\* the four conditions a query text has to meet
PassesValidation(text) ==
    /\ \E w \in {"SELECT", "CONSTRUCT", "ASK", "DESCRIBE"} : MentionsWord(text, Chars(w))
    /\ MentionsWord(text, Chars("SELECT")) => MentionsWord(text, Chars("WHERE"))
    /\ Occurrences(text, "{") = Occurrences(text, "}")
    /\ Occurrences(text, "(") = Occurrences(text, ")")

\* C1: every SPARQLQuery build_query returns has a text with a query keyword,
\* with WHERE when it has SELECT, and with as many { as } and as many ( as );
\* a text failing that is never returned: build_query raises SPARQLError.
C1_BuiltQueryPassesValidation ==
    pc = "Built" /\ built.ok => PassesValidation(built.query_text)

\* build_query has raised on a text that fails the validation
C1_Witness ==
    /\ pc = "Built"
    /\ ~built.ok
    /\ ~PassesValidation(built.sparql)
    /\ StartsAt(built.error, 1, Chars("Invalid SPARQL generated"))

\* the placeholders of the matched pattern, as they are written in a template
PlaceholderMarks(pattern) ==
    {<<"{">> \o name \o <<"}">> : name \in Range(FindPlaceholders(pattern.template, 1))}

\* C2: build_query never returns a query whose text still holds a {placeholder}
\* of the pattern, whatever result of find_matches it is given (exact or fuzzy,
\* a fuzzy one with no entity extracted included).
C2_NoUnresolvedPlaceholder ==
    pc = "Built" /\ built.ok =>
       \A mark \in PlaceholderMarks(best_match.pattern) : ~Contains(built.query_text, mark)

-----------------------------------------------------------------------------
(* Properties of the matcher (SpecComponents)                               *)

\* a and b are the same text once letter case is ignored
SameIgnoringCase(a, b) ==
    Len(a) = Len(b) /\ \A k \in 1..Len(a) : LowerChar(a[k]) = LowerChar(b[k])

\* text without the white space at its two ends
Trimmed(text) ==
    LET inked == {i \in 1..Len(text) : text[i] \notin SpaceChars}
    IN IF inked = {} THEN <<>>
       ELSE SubSeq(text, CHOOSE i \in inked : \A j \in inked : i <= j,
                         CHOOSE i \in inked : \A j \in inked : i >= j)

\* Every way of laying the parts of a template (literals and placeholders,
\* from part idx on) over text from position pos to its end: literals equal
\* the text with case ignored, a placeholder takes one character or more.
\* A way is the sequence of the lengths the placeholders take.
RECURSIVE Cuts(_, _, _, _)
Cuts(parts, idx, text, pos) ==
    IF idx > Len(parts) THEN (IF pos = Len(text) + 1 THEN {<<>>} ELSE {})
    ELSE IF IsBraced(parts[idx])
    THEN UNION {{<<n>> \o rest : rest \in Cuts(parts, idx + 1, text, pos + n)} :
                   n \in 1..(Len(text) - pos + 1)}
    ELSE IF /\ pos + Len(parts[idx]) - 1 <= Len(text)
            /\ SameIgnoringCase(SubSeq(text, pos, pos + Len(parts[idx]) - 1), parts[idx])
         THEN Cuts(parts, idx + 1, text, pos + Len(parts[idx]))
         ELSE {}

\* the whole of text matches the template
MatchesWhole(template, text) == Cuts(SplitTemplate(template, 1), 1, text, 1) # {}

\* a comes before b in dictionary order
LexLess(a, b) == \E k \in 1..Len(a) : a[k] < b[k] /\ \A j \in 1..(k - 1) : a[j] = b[j]

\* what non-greedy groups take: each as little as the rest allows, left to right
LazyCut(template, text) ==
    LET cuts == Cuts(SplitTemplate(template, 1), 1, text, 1)
    IN CHOOSE c \in cuts : \A d \in cuts : d = c \/ LexLess(c, d)

\* the (name, trimmed value) pairs of a cut, in template order
RECURSIVE Captured(_, _, _, _, _)
Captured(parts, idx, text, pos, lens) ==
    IF idx > Len(parts) THEN <<>>
    ELSE IF IsBraced(parts[idx])
    THEN <<[name |-> SubSeq(parts[idx], 2, Len(parts[idx]) - 1),
            value |-> Trimmed(SubSeq(text, pos, pos + Head(lens) - 1))]>>
         \o Captured(parts, idx + 1, text, pos + Head(lens), Tail(lens))
    ELSE Captured(parts, idx + 1, text, pos + Len(parts[idx]), lens)

\* the results find_matches returned for a pattern
ResultsFor(pattern) == {k \in 1..Len(matches) : matches[k].pattern = pattern}

\* C3: find_matches reports a pattern as "exact" exactly when its template,
\* anchored and with case ignored, matches the whole input; the result then has
\* confidence 1.0 and one entity per placeholder, in template order, each the
\* captured piece of the input, trimmed, in its original casing; a pattern that
\* matches exactly is never reported as fuzzy.
C3_ExactIffWholeMatch ==
    pc = "Matched" =>
       \A i \in 1..Len(grammar) :
          LET pattern == grammar[i]
          IN IF MatchesWhole(pattern.template, input)
             THEN /\ ResultsFor(pattern) # {}
                  /\ \A k \in ResultsFor(pattern) :
                        /\ matches[k].match_type = "exact"
                        /\ matches[k].confidence = RatOne
                        /\ matches[k].entities =
                              Captured(SplitTemplate(pattern.template, 1), 1, input, 1,
                                       LazyCut(pattern.template, input))
             ELSE \A k \in ResultsFor(pattern) : matches[k].match_type # "exact"

\* an exact result with two entities, one of them holding a capital letter,
\* for an input that ends in white space
C3_Witness ==
    /\ pc = "Matched"
    /\ input[Len(input)] = " "
    /\ \E k \in 1..Len(matches) :
          /\ matches[k].match_type = "exact"
          /\ Len(matches[k].entities) = 2
          /\ \E e \in Range(matches[k].entities) : \E c \in Range(e.value) : c \in UpperSet

\* C4: find_matches scores every pattern of the grammar, returns at most one
\* result per pattern, only results whose confidence is at least the threshold,
\* in non-increasing order of confidence.
C4_AllScoredFilteredSorted ==
    pc = "Matched" =>
       /\ \A i \in 1..Len(grammar) :
             LET scored == _match_pattern(threshold, input, grammar[i])
             IN IF scored # None /\ RatLeq(threshold, scored.confidence)
                THEN \E k \in 1..Len(matches) : matches[k] = scored
                ELSE ResultsFor(grammar[i]) = {}
       /\ \A i \in 1..Len(grammar) : Cardinality(ResultsFor(grammar[i])) <= 1
       /\ \A k \in 1..Len(matches) :
             /\ matches[k].pattern \in Range(grammar)
             /\ RatLeq(threshold, matches[k].confidence)
       /\ \A k \in 1..(Len(matches) - 1) :
             RatLeq(matches[k + 1].confidence, matches[k].confidence)

\* two results of different confidence, the later pattern of the grammar
\* ahead of the earlier one, and a third pattern left out
C4_Witness ==
    /\ pc = "Matched"
    /\ Len(matches) = 2
    /\ RatLess(matches[2].confidence, matches[1].confidence)
    /\ \E i, j \in 1..Len(grammar) :
          i < j /\ matches[1].pattern = grammar[j] /\ matches[2].pattern = grammar[i]
    /\ \E i \in 1..Len(grammar) : ResultsFor(grammar[i]) = {}

-----------------------------------------------------------------------------
(* Properties of the service (Spec)                                         *)

\* the place of a pattern in the grammar
GrammarIndex(pattern) == CHOOSE i \in 1..Len(grammar) : grammar[i] = pattern

\* result k has the highest confidence of all, and of the results that have
\* it, its pattern is the first in the grammar
IsFirstOfTheBest(k) ==
    \A j \in 1..Len(matches) :
       \/ RatLess(matches[j].confidence, matches[k].confidence)
       \/ /\ matches[j].confidence = matches[k].confidence
          /\ GrammarIndex(matches[k].pattern) <= GrammarIndex(matches[j].pattern)

\* C5: when find_matches returns a match, process_query builds from the match
\* of highest confidence and, among matches of equal confidence, from the one
\* whose pattern comes first in the grammar.
C5_BuildsFromFirstOfTheBest ==
    pc = "Responded" /\ Len(matches) > 0 =>
       /\ \E k \in 1..Len(matches) : IsFirstOfTheBest(k) /\ best_match = matches[k]
       /\ response.debug_info # None =>
             /\ response.debug_info.pattern_id = best_match.pattern.id
             /\ response.debug_info.confidence = best_match.confidence

\* two patterns matched with the same confidence and the query was built and
\* reported for the one that comes first in the grammar
C5_Witness ==
    /\ pc = "Responded"
    /\ Len(matches) = 2
    /\ matches[1].confidence = matches[2].confidence
    /\ response.success
    /\ response.debug_info # None
    /\ response.debug_info.pattern_id = grammar[1].id
    /\ matches[2].pattern = grammar[2]

\* the five fields of a QueryResponse
ResponseFields == {"success", "sparql_query", "error_message", "suggestions", "debug_info"}

\* C6: process_query raises nothing, it always returns a QueryResponse; when
\* find_matches returns no match the response has success false, an error
\* message, the list suggest_corrections gives for the input, no SPARQL text
\* and no debug info; a build error becomes a failure response as well.
C6_NoMatchIsAFailureResponse ==
    pc = "Responded" =>
       /\ DOMAIN response = ResponseFields
       /\ response.success \in BOOLEAN
       /\ Len(matches) = 0 =>
             /\ ~response.success
             /\ response.error_message # Nothing
             /\ response.suggestions = Some(suggest_corrections(request.input_text, grammar))
             /\ response.sparql_query = Nothing
             /\ response.debug_info = None
       /\ Len(matches) > 0 /\ ~built.ok =>
             /\ ~response.success
             /\ response.error_message = Some(built.error)

\* nothing matched, the request asked for the query text and the debug info,
\* and the failure response carries suggestions only
C6_Witness ==
    /\ pc = "Responded"
    /\ Len(matches) = 0
    /\ request.debug /\ request.show_sparql
    /\ ~response.success
    /\ response.suggestions # Nothing
    /\ Len(response.suggestions[1]) > 0

\* C7: a QueryResponse has its sparql_query exactly when it is a success and
\* the request set show_sparql or debug, and its debug_info exactly when it is
\* a success and the request set debug.
C7_TextOnlyWhenAsked ==
    pc = "Responded" =>
       /\ response.sparql_query # Nothing
             <=> (response.success /\ (request.show_sparql \/ request.debug))
       /\ response.debug_info # None <=> (response.success /\ request.debug)

\* a success for a request with neither flag, answered without the query text
C7_Witness ==
    /\ pc = "Responded"
    /\ response.success
    /\ ~request.show_sparql /\ ~request.debug
    /\ response.sparql_query = Nothing
    /\ response.debug_info = None

-----------------------------------------------------------------------------
(* Properties of the extracted entities (SpecComponents)                    *)

\* value stands in text, character for character
IsFragment(value, text) ==
    \E i \in 1..(Len(text) - Len(value) + 1) : SubSeq(text, i, i + Len(value) - 1) = value

\* C8: every entity value of every result of find_matches, exact or fuzzy, is
\* a fragment of the input as it was typed, in its original casing, never the
\* lower-cased tokens.
C8_EntityIsInputFragment ==
    pc = "Matched" =>
       \A k \in 1..Len(matches) :
          \A e \in Range(matches[k].entities) : IsFragment(e.value, input)

\* the literal that follows the n-th placeholder of a template (empty for a
\* placeholder that ends it)
LiteralAfter(template, n) == SplitTemplate(template, 1)[2 * n + 1]

\* value stands in text and runs up to the literal (white space that the
\* trimming removed may lie between them), or to the end of text when the
\* literal is empty
RunsUpTo(value, literal, text) ==
    \E i \in 1..(Len(text) - Len(value) + 1) :
       /\ SubSeq(text, i, i + Len(value) - 1) = value
       /\ LET rest == SubSeq(text, i + Len(value), Len(text))
          IN IF Len(literal) = 0 THEN Trimmed(rest) = <<>>
             ELSE \E skip \in 0..Len(rest) :
                     /\ \A j \in 1..skip : rest[j] \in SpaceChars
                     /\ skip + Len(literal) <= Len(rest)
                     /\ SameIgnoringCase(SubSeq(rest, skip + 1, skip + Len(literal)), literal)

\* every entity of entities runs up to the literal that follows its placeholder
CapturedWhole(entities, pattern, text) ==
    LET placeholders == FindPlaceholders(pattern.template, 1)
    IN \A n \in 1..Len(placeholders) :
          \A e \in Range(entities) :
             e.name = placeholders[n] =>
                RunsUpTo(e.value, LiteralAfter(pattern.template, n), text)

\* C9: in every result of find_matches or extract_entities whose entities come
\* from a regex built from the template (the anchored exact match or the
\* unanchored positional search), the value of a placeholder extends up to the
\* next literal of the template or, for the last placeholder, to the end of the
\* input: never a truncated prefix of what was typed.
C9_EntityCapturedWhole ==
    /\ pc = "Matched" =>
          \A k \in 1..Len(matches) :
             (\/ matches[k].match_type = "exact"
              \/ _extract_entities_positional(input, matches[k].pattern) # <<>>)
                => CapturedWhole(matches[k].entities, matches[k].pattern, input)
    /\ pc = "Extracted" =>
          CapturedWhole(extracted.entities, extracted.pattern, input)

\* C10: every fuzzy result of find_matches has as confidence the blended
\* similarity of the input and the template, which is at least the threshold
\* and strictly below 1.0, the confidence kept for exact matches.
C10_FuzzyBelowOne ==
    pc = "Matched" =>
       \A k \in 1..Len(matches) :
          matches[k].match_type = "fuzzy" =>
             /\ matches[k].confidence =
                   _calculate_token_similarity(_tokenize(input),
                                               _tokenize_template(matches[k].pattern.template))
             /\ RatLeq(threshold, matches[k].confidence)
             /\ RatLess(matches[k].confidence, RatOne)

-----------------------------------------------------------------------------
(* Properties of the possessive and of fuzzy tolerance (SpecComponents)     *)

\* the literal 's ... behind the placeholder of a possessive template
\* ({name}'s ...), <<>> for any other template
PossessiveTail(template) ==
    LET parts == SplitTemplate(template, 1)
    IN IF Len(parts) = 3 /\ Len(parts[1]) = 0 /\ StartsAt(parts[3], 1, <<"'", "s">>)
       THEN parts[3] ELSE <<>>

\* text is a name (letters and digits) followed by ending
NameThen(text, ending) ==
    /\ Len(text) > Len(ending)
    /\ SubSeq(text, Len(text) - Len(ending) + 1, Len(text)) = ending
    /\ \A k \in 1..(Len(text) - Len(ending)) : text[k] \in WordChars

\* C11: for a possessive template ({name}'s ...) find_matches yields a result
\* of that pattern for an input that is a name followed by the 's literal as
\* written, and also for the same input with the apostrophe left out.
C11_PossessiveApostropheOptional ==
    pc = "Matched" =>
       \A i \in 1..Len(grammar) :
          Len(PossessiveTail(grammar[i].template)) > 0 =>
             \A ending \in {PossessiveTail(grammar[i].template),
                            Tail(PossessiveTail(grammar[i].template))} :
                NameThen(input, ending) => ResultsFor(grammar[i]) # {}

\* the literal words a template starts with when it is literal words followed
\* by one placeholder, and no text otherwise
LeadingWords(template) ==
    LET parts == SplitTemplate(template, 1)
    IN IF Len(parts) = 3 /\ Len(parts[3]) = 0 /\ Len(Strip(parts[1])) > 0
       THEN parts[1] ELSE <<>>

\* text with the characters at k and k + 1 changed places
Swapped(text, k) ==
    [j \in 1..Len(text) |-> IF j = k THEN text[k + 1]
                            ELSE IF j = k + 1 THEN text[k] ELSE text[j]]

\* the places of text where two unlike neighbouring letters of the template's
\* literal words stand in each other's place: put back, the template matches the
\* whole text and its placeholder takes a value that is not blank
Transpositions(template, text) ==
    LET words == LeadingWords(template)
    IN {k \in 1..(Len(words) - 1) :
           /\ Len(text) > Len(words)
           /\ text[k] \in LowerSet \cup UpperSet
           /\ text[k + 1] \in LowerSet \cup UpperSet
           /\ LowerChar(text[k]) # LowerChar(text[k + 1])
           /\ SameIgnoringCase(SubSeq(Swapped(text, k), 1, Len(words)), words)
           /\ Len(Trimmed(SubSeq(text, Len(words) + 1, Len(text)))) > 0}

\* C12: when the input would match a template of literal words and one
\* placeholder exactly but for two neighbouring letters of one literal word
\* written in each other's place, find_matches with threshold 0.7 has a result
\* for that pattern of type "fuzzy", with confidence above 0.7 and a placeholder
\* value that is not empty.
C12_TranspositionMatchesFuzzily ==
    pc = "Matched" =>
       \A i \in 1..Len(grammar) :
          Transpositions(grammar[i].template, input) # {} =>
             \E k \in ResultsFor(grammar[i]) :
                /\ matches[k].match_type = "fuzzy"
                /\ RatLess(Rat(7, 10), matches[k].confidence)
                /\ \E e \in 1..Len(matches[k].entities) :
                      Len(matches[k].entities[e].value) > 0

-----------------------------------------------------------------------------
(* Properties of the no-match path (SpecComponents)                         *)

\* no token of the input is one of the words
NoTokenAmong(text, words) == ~AnyShared(_tokenize(Lower(text)), words)

-----------------------------------------------------------------------------
(* Properties of the entities (SpecCalls)                                   *)

\* text has an opening brace, at least one character that is not a closing
\* brace, and then a closing brace
HasPlaceholder(text) ==
    \E i \in 1..Len(text) : \E j \in (i + 2)..Len(text) :
       /\ text[i] = "{"
       /\ text[j] = "}"
       /\ \A m \in (i + 1)..(j - 1) : text[m] # "}"

\* text has a character that is not white space
NotBlank(text) == \E i \in 1..Len(text) : text[i] \notin {" ", "\t", "\n", "\r"}

\* C14: Pattern(...) returns a Pattern only if the id is not empty, the
\* template has a {name} placeholder, the confidence lies in [0, 1], there is an
\* example and the SPARQL template is not blank; in every other case it raises
\* ValidationError and no Pattern exists.
C14_PatternValidated ==
    pc = "Constructed" /\ call.op = "Pattern" =>
       IF /\ Len(call.id) > 0
          /\ HasPlaceholder(call.template)
          /\ call.confidence.num >= 0
          /\ call.confidence.num <= call.confidence.den
          /\ Len(call.examples) > 0
          /\ NotBlank(call.sparql_template)
       THEN /\ made.raised = ""
            /\ made.value.pattern.id = call.id
            /\ made.value.pattern.template = call.template
            /\ made.value.confidence = call.confidence
       ELSE /\ made.raised = "ValidationError"
            /\ made.value = None

\* a Pattern was made with the confidence at the upper end of the range
C14_Witness ==
    /\ pc = "Constructed"
    /\ call.op = "Pattern"
    /\ call.confidence = RatOne
    /\ made.raised = ""
    /\ made.value.pattern.keywords # <<>>

\* the patterns are at least one, the hash is not empty and no two patterns
\* at different places have the same id
WellFormedGrammar(patterns, ontology_hash) ==
    /\ Len(patterns) > 0
    /\ Len(ontology_hash) > 0
    /\ \A i \in 1..Len(patterns) : \A j \in 1..Len(patterns) :
          i # j => patterns[i].id # patterns[j].id

\* C15: every Grammar that exists has at least one pattern, a hash that is not
\* empty and pairwise distinct pattern ids; Grammar(...) on an empty pattern
\* list, an empty hash or a repeated id raises ValidationError and makes none.
C15_GrammarValidated ==
    pc = "Constructed" /\ call.op = "Grammar" =>
       /\ made.raised = "" =>
             /\ WellFormedGrammar(made.value.patterns, made.value.ontology_hash)
             /\ made.value.patterns = call.patterns
             /\ made.value.ontology_hash = call.ontology_hash
       /\ ~WellFormedGrammar(call.patterns, call.ontology_hash) =>
             made.raised = "ValidationError" /\ made.value = None
       /\ made.raised \in {"", "ValidationError"}

\* a list of three patterns, the third under the id of the first, was refused
C15_Witness ==
    /\ pc = "Constructed"
    /\ call.op = "Grammar"
    /\ Len(call.patterns) = 3
    /\ Len(call.ontology_hash) > 0
    /\ made.raised = "ValidationError"
    /\ made.message = Chars("Grammar contains duplicate pattern IDs")

-----------------------------------------------------------------------------
(* Properties of the builder's text operations (SpecCalls)                  *)

\* how many times word (in capitals) occurs in text, letter case ignored
WordCount(text, word) ==
    Cardinality({i \in 1..(Len(text) - Len(word) + 1) :
                    \A k \in 1..Len(word) : UpperChar(text[i + k - 1]) = word[k]})

\* the clause add_limit writes for a limit
LimitClause(limit) ==
    Chars("\nLIMIT ") \o (CASE limit = 1 -> Chars("1")
                            [] limit = 10 -> Chars("10")
                            [] limit = 20 -> Chars("20"))

\* text ends with ending
EndsWith(text, ending) ==
    /\ Len(text) >= Len(ending)
    /\ SubSeq(text, Len(text) - Len(ending) + 1, Len(text)) = ending

\* text ends with a LIMIT clause: white space, LIMIT in any letter case, white
\* space, digits, and white space or nothing up to the end
HasTrailingLimit(text) ==
    \E i \in 2..Len(text) : \E j \in (i + 6)..Len(text) : \E k \in j..Len(text) :
       /\ text[i - 1] \in SpaceChars
       /\ \A m \in 1..5 : UpperChar(text[i + m - 1]) = Chars("LIMIT")[m]
       /\ \A m \in (i + 5)..(j - 1) : text[m] \in SpaceChars
       /\ \A m \in j..k : text[m] \in DigitSet
       /\ \A m \in (k + 1)..Len(text) : text[m] \in SpaceChars

GraphsAsked(named_graphs, default_graph) ==
    (IF Len(default_graph) > 0 THEN <<default_graph>> ELSE <<>>) \o named_graphs

\* the places of text where p stands
Positions(text, p) == {i \in 1..Len(text) : StartsAt(text, i, p)}

\* the n-th place of a set of places, counted from the left
NthOf(places, n) == CHOOSE x \in places : Cardinality({y \in places : y < x}) = n - 1

\* the WHERE body of a query text that has one pair of outer braces: what
\* stands between its first { and its last }, without the white space around
OuterBody(text) ==
    Trimmed(SubSeq(text, (CHOOSE i \in Positions(text, <<"{">>) :
                             \A j \in Positions(text, <<"{">>) : i <= j) + 1,
                         (CHOOSE i \in Positions(text, <<"}">>) :
                             \A j \in Positions(text, <<"}">>) : i >= j) - 1))

\* text with four spaces put after each of its line breaks
RECURSIVE Indented(_)
Indented(text) ==
    IF Len(text) = 0 THEN <<>>
    ELSE IF Len(text) = 1 THEN (IF text[1] = "\n" THEN Chars("\n    ") ELSE text)
    ELSE Indented(SubSeq(text, 1, Len(text) \div 2))
         \o Indented(SubSeq(text, Len(text) \div 2 + 1, Len(text)))

\* at the place `at` of text stands GRAPH <uri> {, then white space, the
\* content, white space and }
BlockAt(text, at, uri, content) ==
    LET mark == Chars("GRAPH <") \o uri \o Chars("> {")
        start == at + Len(mark) + RunLen(text, at + Len(mark), SpaceChars)
        stop == start + Len(content)
    IN /\ StartsAt(text, at, mark)
       /\ StartsAt(text, start, content)
       /\ StartsAt(text, stop + RunLen(text, stop, SpaceChars), <<"}">>)

\* text holds exactly one GRAPH block per graph, in the order of the graphs,
\* each with the content, and one UNION between each block and the next
GraphBlocks(text, graphs, content) ==
    LET blocks == Positions(text, Chars("GRAPH <"))
        unions == Positions(text, Chars("UNION"))
    IN /\ Cardinality(blocks) = Len(graphs)
       /\ Cardinality(unions) = Len(graphs) - 1
       /\ \A n \in 1..Len(graphs) : BlockAt(text, NthOf(blocks, n), graphs[n], content)
       /\ \A n \in 1..(Len(graphs) - 1) :
             \E u \in unions : NthOf(blocks, n) < u /\ u < NthOf(blocks, n + 1)

-----------------------------------------------------------------------------
(* Properties of generated patterns in the builder (SpecComponents)         *)

\* C18: for every pattern generate_patterns makes and every entity value
\* find_matches extracts for it, the SPARQL template with the values put in and
\* the prefixes added passes validate_sparql: build_query returns a query.
C18_GeneratedPatternsAlwaysBuild ==
    pc = "Built" /\ grammar = GeneratedGrammar => built.ok

-----------------------------------------------------------------------------
(* Properties of grammar loading and of a service's life (SpecService)     *)

\* the calls, among those a load made, of the named operations
CallsOf(calls, ops) == {i \in 1..Len(calls) : calls[i].op \in ops}

\* the store holds something under the key
Holds(store, key) == \E i \in 1..Len(store) : store[i].key = key

\* key is grammar_ followed by twelve hexadecimal digits
IsGrammarKey(key) ==
    /\ Len(key) = 20
    /\ SubSeq(key, 1, 8) = Chars("grammar_")
    /\ \A i \in 9..20 : key[i] \in DigitSet \cup {"a", "b", "c", "d", "e", "f"}

\* what a load did, given the store it found, the calls it made, the outcome it
\* came to and the store it left, follows the protocol of load_grammar with a
\* cache manager
LoadProtocol(found, calls, loaded, left) ==
    /\ Len(calls) >= 2
    /\ calls[1].op = "_calculate_hash"
    /\ calls[2].op = "get"
    /\ IsGrammarKey(calls[2].key)
    /\ IF Holds(found, calls[2].key)
       THEN /\ loaded.raised = ""
            /\ \E i \in 1..Len(found) :
                  found[i].key = calls[2].key /\ found[i].value = loaded.value
            /\ CallsOf(calls, {"_parse_ontology", "generate_patterns", "put"}) = {}
            /\ left = found
       ELSE loaded.raised = "" =>
               /\ Len(calls) = 6
               /\ calls[3].op = "_parse_ontology"
               /\ calls[4].op = "generate_patterns"
               /\ calls[5].op = "Grammar"
               /\ calls[6] = [op |-> "put", key |-> calls[2].key, value |-> loaded.value]
               /\ left = Append(found, [key |-> calls[2].key, value |-> loaded.value])
               /\ WellFormedGrammar(loaded.value.patterns, loaded.value.ontology_hash)

\* C19: a load_grammar with a cache manager computes the hash and calls get
\* with grammar_<12 hex digits>; on a hit it returns the cached grammar
\* (patterns, hash, namespaces and timestamp as stored) without parsing,
\* generating or putting; on a miss it parses, generates, constructs the
\* Grammar and then puts it once under the same key; so a grammar stored on a
\* miss is the one a later load of the same ontology returns.
C19_CacheProtocol ==
    [][pc = "Uninitialized" /\ pc' # "Uninitialized"
          /\ call'.cache_manager /\ call'.ontology.exists
       => LoadProtocol(cache, made'.calls, made'.loaded, cache')]_vars

\* a later run restored from the cache, with its earlier timestamp, the grammar
\* an earlier run had generated and stored
C19_Witness ==
    /\ pc = "Initialized"
    /\ call.cache_manager
    /\ Len(made.calls) = 3
    /\ made.loaded.value.patterns = GeneratedGrammar
    /\ made.loaded.value.created_at # call.now
    /\ cache = <<[key |-> CacheKey(OntologyHash), value |-> made.loaded.value]>>

\* the file cannot give a grammar: it is missing, it does not parse, no property
\* of it gives a pattern, or a pattern of it has no placeholder
CannotLoad(file) ==
    \/ ~file.exists
    \/ ~file.parses
    \/ generate_patterns(_parse_ontology(file)) = <<>>
    \/ \E i \in 1..Len(generate_patterns(_parse_ontology(file))) :
          ~HasPlaceholder(generate_patterns(_parse_ontology(file))[i].template)

\* C20: when the ontology file is missing, cannot be parsed, gives no pattern or
\* gives an invalid grammar, load_grammar raises GrammarError and has put
\* nothing into the cache, the construction of the QueryService raises, the
\* service has no grammar, and nothing happens after: a service processes
\* queries only after a construction that returned.
C20_LoadFailureIsFatal ==
    [][/\ pc # "Failed"
       /\ (pc = "Uninitialized" /\ pc' # "Uninitialized"
              /\ CannotLoad(call'.ontology) /\ ~Holds(cache, CacheKey(call'.ontology.hash)))
          => pc' = "Failed"
       /\ pc' = "Failed" =>
             /\ made'.loaded.raised = "GrammarError"
             /\ made'.outcome.raised = "KBQueryException"
             /\ made'.outcome.value = None
             /\ CallsOf(made'.calls, {"put"}) = {}
             /\ cache' = cache
             /\ grammar' = <<>>
       /\ pc' = "Initialized" => made'.outcome.raised = "" /\ grammar' # <<>>
       /\ pc' = "Ready" => pc \in {"Initialized", "Responded"}
       /\ pc' = "Responded" => pc = "Ready" /\ grammar # <<>>]_vars

\* a construction with a cache manager failed on a file whose pattern has no
\* placeholder, after an earlier run had stored a grammar; the store is as it was
C20_Witness ==
    /\ pc = "Failed"
    /\ call.cache_manager
    /\ call.ontology = OddFile
    /\ Len(cache) = 1
    /\ CallsOf(made.calls, {"get"}) # {}

-----------------------------------------------------------------------------
(* C21: process_query leaves the service as it was constructed              *)

\* two responses held at once for the same request are the same response
SameRequestSameResponse ==
    \A t \in TaskIds, u \in TaskIds :
       (/\ tasks[t].pc = "returned"
        /\ tasks[u].pc = "returned"
        /\ tasks[t].request = tasks[u].request)
       => tasks[t].response = tasks[u].response

\* C21: no statement of process_query changes the grammar (its patterns, their
\* ids, templates, SPARQL templates and order), the matcher threshold or the
\* builder namespaces, whether the query succeeds, finds no match or fails in
\* the builder; when the invocations have returned nothing of them is left in
\* the service, and queries with the same request get the same response
C21_QueriesLeaveServiceAsLoaded ==
    [][/\ grammar' = grammar
       /\ threshold' = threshold
       /\ namespaces' = namespaces
       /\ pc' = "Ready"
       /\ SameRequestSameResponse'
       /\ ((\A t \in TaskIds : tasks'[t].pc = "idle")
              => tasks' = [t \in TaskIds |-> IdleTask])]_vars

\* two queries with the same request have both failed in the builder
C21_Witness ==
    /\ tasks # <<>>
    /\ \E t \in TaskIds, u \in TaskIds :
          /\ t # u
          /\ tasks[t].pc = "returned"
          /\ tasks[u].pc = "returned"
          /\ tasks[t].request = tasks[u].request
          /\ tasks[t].sparql_query # None
          /\ ~tasks[t].sparql_query.ok
          /\ ~tasks[t].response.success

-----------------------------------------------------------------------------
(* C22: interleaved invocations answer as they would alone                  *)

\* process_query run from its call to its return with nothing in between
AloneResponse(req, g, th, ns) ==
    LET found == find_matches(th, req.input_text, g)
    IN IF Len(found) = 0 THEN NoMatchResponse(req, g)
       ELSE BuiltResponse(req, found[1],
                          build_query(ns, found[1], req.named_graphs, req.default_graph))

\* C22: however the statements of two invocations on one service are
\* interleaved, a statement of one invocation changes nothing of the other
\* (its request, matches, MatchResult, SPARQLQuery, response), and the
\* response an invocation returns is the one it returns when run alone
C22_InterleavedAsAlone ==
    [][\A t \in TaskIds :
          /\ (tasks'[t] # tasks[t]
                 => \A u \in TaskIds \ {t} : tasks'[u] = tasks[u])
          /\ (tasks'[t].pc = "returned" /\ tasks[t].pc # "returned"
                 => tasks'[t].response
                       = AloneResponse(tasks'[t].request, grammar, threshold, namespaces))]_vars

\* one invocation has returned a limited query while another, with a different
\* request and no limit, holds the SPARQLQuery it has built
C22_Witness ==
    /\ tasks # <<>>
    /\ \E t \in TaskIds, u \in TaskIds :
          /\ tasks[t].pc = "returned"
          /\ tasks[t].response.success
          /\ tasks[t].request.limit # 0
          /\ tasks[t].request.show_sparql
          /\ tasks[u].pc = "limited"
          /\ tasks[u].request.limit = 0
          /\ tasks[u].request.input_text = tasks[t].request.input_text

-----------------------------------------------------------------------------
(* C23: optimize_query keeps the lines and the validity of the query        *)

\* how often `line` is among the lines of `text`
LineCount(text, line) ==
    Cardinality({i \in 1..Len(SplitLines(text)) : SplitLines(text)[i] = line})

\* the same lines, each as often
SameLines(a, b) ==
    \A line \in Range(SplitLines(a)) \cup Range(SplitLines(b)) :
       LineCount(a, line) = LineCount(b, line)

\* C23: the text optimize_query returns has exactly the lines of the text it
\* was given, so a text that passes validate_sparql passes it afterwards too
C23_OptimizeKeepsLinesAndValidity ==
    (pc = "Optimized")
    => /\ SameLines(call.sparql, made.value)
       /\ (validate_sparql(call.sparql) => validate_sparql(made.value))

-----------------------------------------------------------------------------
(* C24: _escape_sparql_string escapes each special character exactly once   *)

\* what a SPARQL string literal's escape sequences stand for
RECURSIVE Unescaped(_)
Unescaped(text) ==
    IF Len(text) = 0 THEN <<>>
    ELSE IF text[1] = "\\" /\ Len(text) > 1
    THEN <<CASE text[2] = "n" -> "\n"
             [] text[2] = "r" -> "\r"
             [] text[2] = "t" -> "\t"
             [] OTHER -> text[2]>> \o Unescaped(SubSeq(text, 3, Len(text)))
    ELSE <<text[1]>> \o Unescaped(Tail(text))

\* the number of backslashes that stand directly before position i
RECURSIVE BackslashesBefore(_, _)
BackslashesBefore(text, i) ==
    IF i > 1 /\ text[i - 1] = "\\" THEN 1 + BackslashesBefore(text, i - 1) ELSE 0

\* the characters of a value that need an escape
Specials(text) == {i \in 1..Len(text) : text[i] \in {"\\", "\"", "\n", "\r", "\t"}}

\* C24: the escaped value has no raw newline, carriage return or tab, every
\* double quote in it is escaped by a backslash that is not itself escaped,
\* each special character of the value has added exactly one character, and
\* un-escaping gives the value back (so no two values escape to one text)
C24_EscapedOnceAndReversible ==
    (pc = "Escaped")
    => /\ \A i \in 1..Len(made.value) : made.value[i] \notin {"\n", "\r", "\t"}
       /\ \A i \in 1..Len(made.value) :
             made.value[i] = "\"" => BackslashesBefore(made.value, i) % 2 = 1
       /\ Len(made.value) = Len(call.value) + Cardinality(Specials(call.value))
       /\ Unescaped(made.value) = call.value

\* a value with a backslash before a quote and a newline has been escaped
C24_Witness ==
    /\ pc = "Escaped"
    /\ call.value = <<"\\", "\"", "\n">>
    /\ made.value = <<"\\", "\\", "\\", "\"", "\\", "n">>

-----------------------------------------------------------------------------
(* C25: build_query declares the namespaces the template did not declare    *)

\* the PREFIX line of a namespace
PrefixLine(ns) == Chars("PREFIX ") \o ns.prefix \o Chars(": <") \o ns.uri \o <<">">>

\* the line is among the PREFIX lines the text starts with
DeclaredAtStart(text, ns) ==
    LET lines == SplitLines(text)
    IN \E k \in 1..Len(lines) :
          /\ lines[k] = PrefixLine(ns)
          /\ \A j \in 1..(k - 1) : StartsAt(lines[j], 1, Chars("PREFIX "))

\* the template declares the prefix itself
DeclaresPrefix(template, ns) ==
    Contains(Upper(template), Chars("PREFIX ") \o Upper(ns.prefix) \o <<":">>)

\* C25: with a non-empty namespace map, the query build_query returns starts
\* with a PREFIX line for every namespace of the map that the SPARQL template
\* does not declare, whatever the entity values and whatever other prefix the
\* template declares
C25_MissingNamespacesDeclared ==
    (pc = "BuiltDirect" /\ made.ok /\ Len(namespaces) > 0)
    => \A i \in 1..Len(namespaces) :
          \/ DeclaresPrefix(call.match_result.pattern.sparql_template, namespaces[i])
          \/ DeclaredAtStart(made.query_text, namespaces[i])

-----------------------------------------------------------------------------
(* C26: a requested graph is never dropped from the query                   *)

\* C26: when build_query is given a default graph or named graphs and returns a
\* query, the text has a GRAPH <uri> block for every one of them
C26_GraphScopingNeverDropped ==
    (pc = "BuiltDirect" /\ made.ok)
    => \A uri \in Range(GraphsAsked(call.named_graphs, call.default_graph)) :
          Contains(made.query_text, Chars("GRAPH <") \o uri \o Chars("> {"))

-----------------------------------------------------------------------------
(* C30: each placeholder is replaced by the escaped value of its own entity *)

\* the places of the template, from `from` on, where a placeholder of an
\* entity stands
PlaceholderPlaces(template, entities, from) ==
    {i \in from..Len(template) :
        \E k \in 1..Len(entities) :
           StartsAt(template, i, <<"{">> \o entities[k].name \o <<"}">>)}

\* the template with every placeholder replaced, in one pass, by the escaped
\* value of the entity it names
RECURSIVE SubstitutedAtOnce(_, _, _)
SubstitutedAtOnce(template, entities, from) ==
    LET places == PlaceholderPlaces(template, entities, from)
    IN IF places = {} THEN SubSeq(template, from, Len(template))
       ELSE LET i == CHOOSE x \in places : \A y \in places : x <= y
                k == CHOOSE n \in 1..Len(entities) :
                        StartsAt(template, i, <<"{">> \o entities[n].name \o <<"}">>)
            IN SubSeq(template, from, i - 1)
               \o _escape_sparql_string(entities[k].value)
               \o SubstitutedAtOnce(template, entities, i + Len(entities[k].name) + 2)

\* C30: the query build_query returns is made of the template with each
\* placeholder replaced by the escaped value of its own entity, whatever the
\* other values are and in whatever order the entities come; a value that
\* holds the text of another placeholder stays as it was typed
C30_SubstitutionPerPlaceholder ==
    (pc = "BuiltDirect" /\ made.ok)
    => made.query_text
          = InGraphs(_add_namespaces(namespaces,
                                     SubstitutedAtOnce(
                                         call.match_result.pattern.sparql_template,
                                         call.match_result.entities, 1)),
                     call.named_graphs, call.default_graph)

-----------------------------------------------------------------------------
(* C28: what suggest_corrections returns                                    *)

\* more than 0.3 of the pattern's keywords are among the tokens
KeywordsOccur(tokens, pattern) ==
    10 * Cardinality({i \in 1..Len(pattern.keywords) :
                         pattern.keywords[i] \in Range(tokens)})
       > 3 * Len(pattern.keywords)

\* a token equals a word of the template
WordOccurs(tokens, pattern) ==
    Range(tokens) \cap Range(_tokenize(Lower(pattern.template))) # {}

\* what one pattern contributes: its first two examples, then its first
Contribution(tokens, pattern) ==
    (IF KeywordsOccur(tokens, pattern)
     THEN SubSeq(pattern.examples, 1, IF Len(pattern.examples) < 2
                                      THEN Len(pattern.examples) ELSE 2)
     ELSE <<>>)
    \o (IF WordOccurs(tokens, pattern) /\ Len(pattern.examples) > 0
        THEN <<pattern.examples[1]>> ELSE <<>>)

\* the contributions of the patterns 1..n, in grammar order
RECURSIVE Produced(_, _, _)
Produced(tokens, patterns, n) ==
    IF n = 0 THEN <<>>
    ELSE Produced(tokens, patterns, n - 1) \o Contribution(tokens, patterns[n])

\* where a string is first produced
FirstAt(produced, s) ==
    CHOOSE i \in 1..Len(produced) :
       produced[i] = s /\ \A j \in 1..(i - 1) : produced[j] # s

\* how many different strings are produced before place i
DistinctBefore(produced, i) == Cardinality({produced[j] : j \in 1..(i - 1)})

\* C28: suggest_corrections returns at most 5 strings, no string twice, each
\* among the first two examples of a pattern of the grammar; they are the
\* strings the patterns contribute, taken in grammar order, in the order in
\* which they are first produced, up to the fifth different one
C28_SuggestionsDistinctCappedInOrder ==
    (pc = "Suggested")
    => LET result == made.value
           produced == Produced(_tokenize(Lower(call.input_text)), grammar, Len(grammar))
       IN /\ Len(result) <= 5
          /\ \A i \in 1..Len(result), j \in 1..Len(result) :
                i # j => result[i] # result[j]
          /\ \A i \in 1..Len(result) :
                \E k \in 1..Len(grammar) : \E e \in 1..2 :
                   e <= Len(grammar[k].examples) /\ grammar[k].examples[e] = result[i]
          /\ \A i \in 1..Len(result) : result[i] \in Range(produced)
          /\ \A i \in 1..Len(result), j \in 1..Len(result) :
                i < j => FirstAt(produced, result[i]) < FirstAt(produced, result[j])
          /\ \A i \in 1..Len(produced) :
                DistinctBefore(produced, i) < 5 => produced[i] \in Range(result)

\* more than five different strings were produced, some of them twice
C28_Witness ==
    /\ pc = "Suggested"
    /\ Len(made.value) = 5
    /\ LET produced == Produced(_tokenize(Lower(call.input_text)), grammar, Len(grammar))
       IN /\ Cardinality(Range(produced)) > 5
          /\ Len(produced) > Cardinality(Range(produced))

-----------------------------------------------------------------------------
(* C29: parse and the generated multi-word patterns                         *)

\* the words before {value} of a pattern "<plural class> <connector> {value}";
\* no words for a pattern of another form
LiteralWords(pattern) ==
    LET text == pattern.pattern
        n == Len(text) - Len(Chars(" {value}"))
    IN IF Len(pattern.required_property) > 0 /\ n > 0
          /\ StartsAt(text, n + 1, Chars(" {value}"))
       THEN SplitWords(SubSeq(text, 1, n))
       ELSE <<>>

\* the query is the literal text of the pattern with one or more words of
\* letters, digits and spaces in the place of {value}
IsInstanceOf(query, pattern) ==
    LET literal == LiteralWords(pattern)
        words == SplitWords(Lower(query))
    IN /\ Len(literal) > 0
       /\ Len(words) > Len(literal)
       /\ SubSeq(words, 1, Len(literal)) = literal
       /\ \A i \in 1..Len(query) :
             query[i] \in LowerSet \cup UpperSet \cup DigitSet \cup SpaceChars

\* the words typed in the place of {value}
ValueWords(query, pattern) ==
    LET words == SplitWords(Lower(query))
    IN SubSeq(words, Len(LiteralWords(pattern)) + 1, Len(words))

\* C29: when parse is given a query that is the text of a generated pattern
\* "<plural class> <connector> {value}" with words in the place of {value},
\* it returns a ParsedQuery whose filters map the local name of the property
\* of the first such pattern of the list to the words typed
C29_MultiWordPatternsParse ==
    pc = "Parsed" =>
        \A i \in 1..Len(call.patterns) :
            (/\ IsInstanceOf(call.query, call.patterns[i])
             /\ \A j \in 1..(i - 1) : ~IsInstanceOf(call.query, call.patterns[j]))
            => /\ made.raised = ""
               /\ Len(made.value.filters) = 1
               /\ made.value.filters[1].name
                      = LastAfter(call.patterns[i].required_property, "#")
               /\ SplitWords(made.value.filters[1].value)
                      = ValueWords(call.query, call.patterns[i])

-----------------------------------------------------------------------------
(* C27: KBQueryEngine.query on a query that matches no pattern              *)

\* no pattern of the engine matches the query
MatchesNoPattern(query, patterns) ==
    QueryParser_match_pattern(Lower(Strip(query)), patterns, 1).index = 0

\* C27: when the query given to KBQueryEngine.query matches no pattern, the
\* call returns a failure result that carries suggestions; no exception
\* reaches the caller
C27_UnmatchedQueryReturnsFailure ==
    (pc = "Queried" /\ MatchesNoPattern(call.query, call.patterns))
        => /\ made.raised = ""
           /\ "suggestions" \in DOMAIN made.value

=============================================================================
